---- MODULE Spec2Model ----
(***************************************************************************)
(* Verification model of DyingLightModManager.                             *)
(*                                                                         *)
(*   src/merge.py       console merge utility: main, the structure         *)
(*                      normalizer and generate_merged_file_content        *)
(*   src/modmanager.py  GUI manager: run_merge, merge_scripts, UiSync      *)
(*                                                                         *)
(* Text is a sequence of characters.  The alphabet holds the two line      *)
(* break characters and a few "chunks"; a chunk stands for a run of        *)
(* characters without line break or surrounding white space:               *)
(*                                                                         *)
(*   "a0" "a1" "a2"   Set("a", 0)   Set("a", 1)   Set("a", 2)             *)
(*   "b0" "b1" "b2"   Set("b", 0)   Set("b", 1)   Set("b", 2)             *)
(*   "s0" "s1" "s2"   set a 0       set a 1       set a 2                  *)
(*   "#"              # note                                               *)
(*                                                                         *)
(* merge.py's try_parse_key gives the a-chunks the key Set_a, the b-chunks *)
(* Set_b and no key to the others; merge_scripts' try_parse_key_local      *)
(* keys a line by its first two white-space separated tokens.              *)
(***************************************************************************)
EXTENDS Naturals, Integers, Sequences, FiniteSets, TLC

LF == "\n"
CR == "\r"

\* Python's None; also str.get() of a missing key
None == "None"

KeyedChunks == {"a0", "a1", "a2", "b0", "b1", "b2"}

\* characters str.strip() removes that the alphabet holds
Whitespace == {CR, LF}

----------------------------------------------------------------------------
(* Bounds of the explored inputs *)

\* baseline lines of the file merged under SpecMerge
MaxBaseLines == 2

\* the mods touching the file under SpecMerge, in mods-list order
ModNames == <<"A.pak", "B.pak", "C.pak">>

BaseLineSet == {<<"a0">>, <<"a1">>, <<"b0">>, <<"#">>}

\* the lines of one mod's copy of the file: nothing, one line, a line for each
\* key, or two lines for the same key
ModLineLists ==
    {<<>>, << <<"a1">>, <<"a2">> >>}
    \cup {<<x>> : x \in {<<"a0">>, <<"a1">>, <<"a2">>, <<"b1">>, <<"b2">>}}
    \cup {<<x, y>> : x \in {<<"a1">>, <<"a2">>}, y \in {<<"b1">>, <<"b2">>}}

----------------------------------------------------------------------------
(* Pure text functions *)

Min(S) == CHOOSE x \in S : \A y \in S : x <= y

RECURSIVE LStrip(_)
LStrip(s) ==
    IF s # <<>> /\ Head(s) \in Whitespace THEN LStrip(Tail(s)) ELSE s

RECURSIVE RStrip(_)
RStrip(s) ==
    IF s # <<>> /\ s[Len(s)] \in Whitespace
    THEN RStrip(SubSeq(s, 1, Len(s) - 1))
    ELSE s

\* the composite f"{function_name}_{first_param}" of a chunk the pattern matches
ChunkKey(c) ==
    IF c \in {"a0", "a1", "a2"} THEN "Set_a" ELSE "Set_b"

\* merge.py try_parse_key: strip, then match the pattern at the start
try_parse_key(line) ==
    LET t == RStrip(LStrip(line))
    IN  IF t # <<>> /\ Head(t) \in KeyedChunks THEN ChunkKey(Head(t)) ELSE None

\* str.replace("\r\n", "\n")
RECURSIVE ReplaceCRLF(_)
ReplaceCRLF(s) ==
    IF s = <<>> THEN <<>>
    ELSE IF Len(s) >= 2 /\ s[1] = CR /\ s[2] = LF
         THEN <<LF>> \o ReplaceCRLF(SubSeq(s, 3, Len(s)))
         ELSE <<s[1]>> \o ReplaceCRLF(Tail(s))

\* str.split("\n"): always at least one line
RECURSIVE SplitLF(_)
SplitLF(s) ==
    LET at == {i \in 1..Len(s) : s[i] = LF}
    IN  IF at = {} THEN <<s>>
        ELSE <<SubSeq(s, 1, Min(at) - 1)>> \o SplitLF(SubSeq(s, Min(at) + 1, Len(s)))

\* "\n".join(lines)
RECURSIVE JoinLF(_)
JoinLF(lines) ==
    IF lines = <<>> THEN <<>>
    ELSE IF Len(lines) = 1 THEN lines[1]
         ELSE lines[1] \o <<LF>> \o JoinLF(Tail(lines))

\* the lines as str.splitlines() ends them: no empty line after a final line break
SplitContentLines(content) ==
    LET ls == SplitLF(ReplaceCRLF(content))
    IN  IF ls[Len(ls)] = <<>> THEN SubSeq(ls, 1, Len(ls) - 1) ELSE ls

\* content.replace("\r\n", "\n").split("\n")
SplitContent(content) == SplitLF(ReplaceCRLF(content))

ScriptFile(path, content, source) ==
    [full_path_in_pak |-> path, content |-> content, source_pak |-> source]

----------------------------------------------------------------------------
(* merge.py generate_merged_file_content: its pure parts *)

\* Key -> last line carrying it, as the loops would fill the map without "key not in"
LineMapLastWins(content) ==
    LET ls == SplitContent(content)
        ks == {try_parse_key(ls[i]) : i \in 1..Len(ls)} \ {None}
    IN  [k \in ks |-> ls[CHOOSE i \in 1..Len(ls) :
                            /\ try_parse_key(ls[i]) = k
                            /\ \A j \in 1..Len(ls) : try_parse_key(ls[j]) = k => j <= i]]

\* Key -> first line carrying it (the loops that fill original_map and mod_map)
LineMap(content) ==
    LET ls == SplitContent(content)
        ks == {try_parse_key(ls[i]) : i \in 1..Len(ls)} \ {None}
    IN  [k \in ks |-> ls[Min({i \in 1..Len(ls) : try_parse_key(ls[i]) = k})]]

ModMaps(ms) ==
    [i \in 1..Len(ms) |-> [source_pak |-> ms[i].source_pak, map |-> LineMap(ms[i].content)]]

\* actual_changes with only the first mod of the list asked
actual_changes_of_first(key, base_line, mms) ==
    IF mms # <<>> /\ key \in DOMAIN mms[1].map /\ mms[1].map[key] # base_line
    THEN << <<mms[1].map[key], mms[1].source_pak>> >>
    ELSE <<>>

\* actual_changes without the comparison against the baseline's line
RECURSIVE actual_changes_uncompared(_, _, _)
actual_changes_uncompared(key, base_line, mms) ==
    IF mms = <<>> THEN <<>>
    ELSE LET mod == Head(mms)
         IN  (IF key \in DOMAIN mod.map
              THEN << <<mod.map[key], mod.source_pak>> >>
              ELSE <<>>) \o actual_changes_uncompared(key, base_line, Tail(mms))

\* the (mod_line, source) pairs of the mods whose line for key differs from base_line
RECURSIVE actual_changes(_, _, _)
actual_changes(key, base_line, mms) ==
    IF mms = <<>> THEN <<>>
    ELSE LET mod == Head(mms)
             mod_line == IF key \in DOMAIN mod.map THEN mod.map[key] ELSE None
         IN  (IF mod_line # None /\ mod_line # base_line
              THEN << <<mod_line, mod.source_pak>> >>
              ELSE <<>>) \o actual_changes(key, base_line, Tail(mms))

\* distinct_changes with one entry per change, equal lines not grouped
RECURSIVE distinct_changes_ungrouped(_)
distinct_changes_ungrouped(ac) ==
    IF ac = <<>> THEN <<>>
    ELSE Append(distinct_changes_ungrouped(SubSeq(ac, 1, Len(ac) - 1)),
                [line |-> ac[Len(ac)][1], sources |-> <<ac[Len(ac)][2]>>])

\* the ordered dict line -> [sources], as a sequence in insertion order
RECURSIVE distinct_changes(_)
distinct_changes(ac) ==
    IF ac = <<>> THEN <<>>
    ELSE LET prev == distinct_changes(SubSeq(ac, 1, Len(ac) - 1))
             last == ac[Len(ac)]
             at == {i \in 1..Len(prev) : prev[i].line = last[1]}
         IN  IF at = {}
             THEN Append(prev, [line |-> last[1], sources |-> <<last[2]>>])
             ELSE [prev EXCEPT ![Min(at)].sources = Append(@, last[2])]

\* base_line taken from the line at hand, not from the baseline's first line for the key
base_line_at_hand(key, original_line, omap) == original_line

\* base_line = original_map.get(key)
base_line(key, original_line, omap) == omap[key]

\* is_resolved that never finds a memoized resolution
is_resolved_never(key, res) == FALSE

\* key in resolutions
is_resolved(key, res) == key \in DOMAIN res

InSources(src, sources) == \E j \in 1..Len(sources) : sources[j] = src

\* AutoPick that takes the first candidate whoever proposed it
AutoPickFirst(dc, pref) == dc[1].line

\* the last distinct change, whatever the preference
AutoPickLast(dc, pref) == dc[Len(dc)].line

\* the value picked without a prompt once a preference is set
AutoPick(dc, pref) ==
    LET hits == {i \in 1..Len(dc) : InSources(pref, dc[i].sources)}
    IN  IF hits # {} THEN dc[Min(hits)].line ELSE dc[1].line

----------------------------------------------------------------------------
(* State *)

VARIABLES
    pc,                     \* where the program stands
    stdout,                 \* what was printed that the claims speak of
    \* merge.py main
    original_scripts,       \* scripts of the source packages
    modded_scripts,         \* scripts of the accepted mods, in load order
    mod_file_groups,        \* path -> scripts, as a sequence in insertion order
    final_file_contents,    \* the module-level dict path -> content
    file_i,                 \* position of main's loop over mod_file_groups
    \* merge.py generate_merged_file_content
    original,               \* argument: the baseline ScriptFile
    mods,                   \* argument: the mods' ScriptFiles
    line_i,                 \* position of the loop over original_lines
    final_content,
    resolutions,
    preferred_mod_source,
    auto_resolved_count,
    choice,                 \* the input loop's choice; -1 outside the loop
    original_map,           \* Key -> the baseline's first line carrying it
    mod_maps,               \* per mod: source_pak and Key -> its first line carrying it
    original_lines,
    merged_content,         \* the value returned
    \* modmanager.py run_merge (original_scripts; modded_scripts is its mod_scripts)
    originals,              \* rel_path -> the baseline's ScriptFile
    by_rel,                 \* rel_path -> the mods' scripts, in insertion order
    rel_i,                  \* position of run_merge's loop over by_rel
    zf,                     \* the entries written to merged.zip, in order
    merged_count,
    \* modmanager.py merge_scripts (original, mods; original_map in insertion order)
    preferred_source_for_file,
    mod_i,                  \* position of the loop over mods
    mod_line_i,             \* position of the loop over the mod's lines
    dialogs,                \* the calls of ask_user: path, key and the two options
    \* a whole run: merge.py main with fix_mod_structures, modmanager.py run_merge
    \* with fix_mod_structures_ui
    source_dir,             \* the N for which data<N>.pak is in the source directory
    source_zips,            \* the N for which data<N>.zip is in the source directory
    mod_files,              \* the mod archives handed to the normalizer, in order
    valid_mods,             \* the normalizer's list of archives to load
    fix_i,                  \* position of the normalizer's loop over mod_files
    staging,                \* merge.py's staging_directory: path -> content written
    existing_paks,          \* merge.py main: the numbers of the data*.pak found
    next_pak_num,           \* number of the package the run installs; -1 before
    source_start,           \* source_dir as the run found it
    ui_log,                 \* modmanager.py: the log lines and message boxes of run_merge
    \* merge.py get_game_file_structure, entry by entry
    game_entries,           \* archive.namelist() of data0.pak
    game_structure,         \* the dict being filled: basename -> path
    scan_i,                 \* position of the loop over game_entries
    \* modmanager.py UiSync and the worker threads of App.on_run_merge
    ui_q,                   \* UiSync.q: the requests not yet polled, oldest first
    last_result,            \* UiSync._last_result
    workers,                \* per worker thread: where it stands, its event, what call returned
    widgets                 \* state of game_entry, file_list and merge_list

mainVars == <<original_scripts, modded_scripts, mod_file_groups, final_file_contents, file_i>>

\* what the call never changes after its first lines
mergeArgs == <<original, mods, original_map, mod_maps, original_lines>>

mergeVars == <<mergeArgs, line_i, final_content, resolutions, preferred_mod_source,
               auto_resolved_count, choice, merged_content>>

uiVars == <<originals, by_rel, rel_i, zf, merged_count, preferred_source_for_file,
            mod_i, mod_line_i, dialogs>>

runVars == <<source_dir, source_zips, mod_files, valid_mods, fix_i, staging,
             existing_paks, next_pak_num, source_start, ui_log>>

auxVars == <<game_entries, game_structure, scan_i, ui_q, last_result, workers, widgets>>

vars == <<pc, stdout, mainVars, mergeVars, uiVars, runVars, auxVars>>

\* no scan of data0.pak is under way, no worker thread exists
AuxIdle ==
    /\ game_entries = <<>>
    /\ game_structure = <<>>
    /\ scan_i = 0
    /\ ui_q = <<>>
    /\ last_result = None
    /\ workers = <<>>
    /\ widgets = "normal"

\* no normalizer and no packaging step has run; the source directory holds data0.pak
RunIdle ==
    /\ source_dir = {0}
    /\ source_zips = {}
    /\ mod_files = <<>>
    /\ valid_mods = <<>>
    /\ fix_i = 0
    /\ staging = <<>>
    /\ existing_paks = {}
    /\ next_pak_num = -1
    /\ source_start = {0}
    /\ ui_log = <<>>

\* run_merge has not been entered
UiIdle ==
    /\ originals = <<>>
    /\ by_rel = <<>>
    /\ rel_i = 0
    /\ zf = <<>>
    /\ merged_count = 0
    /\ preferred_source_for_file = None
    /\ mod_i = 0
    /\ mod_line_i = 0
    /\ dialogs = <<>>

\* a printed event
Event(ev, path, key, n) == [ev |-> ev, path |-> path, key |-> key, n |-> n]

\* the key of the baseline line the loop stands at
CurrentKey == try_parse_key(original_lines[line_i])

\* the conflict's candidates, as list(distinct_changes.items())
lines_list ==
    distinct_changes(actual_changes(CurrentKey,
        base_line(CurrentKey, original_lines[line_i], original_map), mod_maps))

----------------------------------------------------------------------------
(* merge.py generate_merged_file_content: the loop over the baseline lines *)

\* the preference left by the previous call, as a module-level variable would keep it
EntryPreferredKept(before) == before

\* preferred_mod_source = None on entry
EntryPreferred(before) == None

\* auto_resolved_count = 0 on entry
EntryAutoResolved(before) == 0

\* only keyed lines are appended, as a merge that rebuilds the file from its map does
EmitKeyedOnly(line) ==
    /\ final_content' = IF try_parse_key(line) = None THEN final_content
                        ELSE Append(final_content, line)
    /\ line_i' = line_i + 1

\* final_content.append(line)
Emit(line) ==
    /\ final_content' = Append(final_content, line)
    /\ line_i' = line_i + 1

\* the decision for key is left out of resolutions
ResolveNothing(key, line) == UNCHANGED resolutions

\* resolutions[key] = line
Resolve(key, line) ==
    resolutions' = [k \in DOMAIN resolutions \cup {key} |->
                        IF k = key THEN line ELSE resolutions[k]]

\* one pass of the loop body, up to the first input() of a conflict
ProcessLine ==
    /\ pc = "merge_loop"
    /\ UNCHANGED auxVars
    /\ UNCHANGED uiVars
    /\ UNCHANGED runVars
    /\ line_i <= Len(original_lines)
    /\ LET original_line == original_lines[line_i]
           key == try_parse_key(original_line)
       IN  IF key = None
           THEN /\ Emit(original_line)
                /\ UNCHANGED <<pc, stdout, resolutions, preferred_mod_source,
                               auto_resolved_count, choice>>
           ELSE IF is_resolved(key, resolutions)
           THEN /\ Emit(resolutions[key])
                /\ UNCHANGED <<pc, stdout, resolutions, preferred_mod_source,
                               auto_resolved_count, choice>>
           ELSE LET ac == actual_changes(key, base_line(key, original_line, original_map), mod_maps)
                    dc == distinct_changes(ac)
                IN  IF Len(ac) = 0
                    THEN /\ Emit(original_line)
                         /\ UNCHANGED <<pc, stdout, resolutions, preferred_mod_source,
                                        auto_resolved_count, choice>>
                    ELSE IF Len(ac) = 1
                    THEN /\ Emit(ac[1][1])
                         /\ Resolve(key, ac[1][1])
                         /\ UNCHANGED <<pc, stdout, preferred_mod_source,
                                        auto_resolved_count, choice>>
                    ELSE IF Len(dc) = 1
                    THEN /\ Emit(dc[1].line)
                         /\ Resolve(key, dc[1].line)
                         /\ UNCHANGED <<pc, stdout, preferred_mod_source,
                                        auto_resolved_count, choice>>
                    ELSE IF preferred_mod_source # None
                    THEN /\ Emit(AutoPick(dc, preferred_mod_source))
                         /\ Resolve(key, AutoPick(dc, preferred_mod_source))
                         /\ auto_resolved_count' = auto_resolved_count + 1
                         /\ UNCHANGED <<pc, stdout, preferred_mod_source, choice>>
                    ELSE /\ stdout' = Append(stdout,
                                Event("CHOICE REQUIRED", original.full_path_in_pak, key, Len(dc)))
                         /\ choice' = -1
                         /\ pc' = "input"
                         /\ UNCHANGED <<line_i, final_content, resolutions,
                                        preferred_mod_source, auto_resolved_count>>
    /\ UNCHANGED <<mainVars, mergeArgs, merged_content>>

\* what the user may type: a number, a number followed by y, or anything else
RawInputs(n) ==
    [digits : 0..(n + 1), y : BOOLEAN] \cup {[digits |-> -1, y |-> FALSE]}

\* one pass of the input loop; a valid choice leaves it and applies the choice
ReadInput ==
    /\ pc = "input"
    /\ UNCHANGED auxVars
    /\ UNCHANGED uiVars
    /\ UNCHANGED runVars
    /\ \E raw_input \in RawInputs(Len(lines_list)) :
        LET n == Len(lines_list)
            new_choice == IF raw_input.digits >= 0 THEN raw_input.digits ELSE choice
            valid == 1 <= new_choice /\ new_choice <= n
            chosen_source == IF raw_input.y /\ valid
                             THEN lines_list[new_choice].sources[1]
                             ELSE None
        IN  IF valid
            THEN /\ Emit(lines_list[new_choice].line)
                 /\ Resolve(CurrentKey, lines_list[new_choice].line)
                 /\ preferred_mod_source' =
                        IF chosen_source # None THEN chosen_source ELSE preferred_mod_source
                 /\ choice' = -1
                 /\ pc' = "merge_loop"
                 /\ UNCHANGED <<stdout, auto_resolved_count>>
            ELSE /\ choice' = new_choice
                 /\ UNCHANGED <<pc, stdout, line_i, final_content, resolutions,
                                preferred_mod_source, auto_resolved_count>>
    /\ UNCHANGED <<mainVars, mergeArgs, merged_content>>

\* after the loop: the report of the auto-resolved conflicts, and the joined text
MergeReturn ==
    /\ pc = "merge_loop"
    /\ UNCHANGED auxVars
    /\ UNCHANGED uiVars
    /\ UNCHANGED runVars
    /\ line_i > Len(original_lines)
    /\ stdout' = IF auto_resolved_count > 0
                 THEN Append(stdout, Event("auto-resolved", preferred_mod_source, None,
                                           auto_resolved_count))
                 ELSE stdout
    /\ merged_content' = JoinLF(final_content)
    /\ pc' = "returned"
    /\ UNCHANGED <<mainVars, mergeArgs, line_i, final_content, resolutions,
                   preferred_mod_source, auto_resolved_count, choice>>

----------------------------------------------------------------------------
(* SpecMerge: one call of generate_merged_file_content(original, mods) *)

SeqsUpTo(S, n) == UNION {[1..k -> S] : k \in 0..n}

BaseContents == {JoinLF(ls) : ls \in SeqsUpTo(BaseLineSet, MaxBaseLines) \ {<<>>}}

ModListsOfLines == [1..Len(ModNames) -> ModLineLists]

MergePath == "scripts/x.scr"

\* the state on entry to the loop of generate_merged_file_content
EnterMerge(orig, ms) ==
    /\ original = orig
    /\ mods = ms
    /\ original_map = LineMap(orig.content)
    /\ mod_maps = ModMaps(ms)
    /\ original_lines = SplitContent(orig.content)
    /\ line_i = 1
    /\ final_content = <<>>
    /\ resolutions = <<>>
    /\ preferred_mod_source = EntryPreferred(None)
    /\ auto_resolved_count = EntryAutoResolved(0)
    /\ choice = -1
    /\ merged_content = None

MainIdle ==
    /\ original_scripts = <<>>
    /\ modded_scripts = <<>>
    /\ mod_file_groups = <<>>
    /\ final_file_contents = <<>>
    /\ file_i = 0

InitMerge ==
    /\ pc = "merge_loop"
    /\ UiIdle
    /\ RunIdle
    /\ AuxIdle
    /\ stdout = <<>>
    /\ MainIdle
    /\ \E b \in BaseContents, mm \in ModListsOfLines :
        EnterMerge(ScriptFile(MergePath, b, "data0.pak"),
                   [i \in 1..Len(mm) |-> ScriptFile(MergePath, JoinLF(mm[i]), ModNames[i])])

NextMerge == ProcessLine \/ ReadInput \/ MergeReturn

SpecMerge == InitMerge /\ [][NextMerge]_vars

----------------------------------------------------------------------------
(* SpecIdempotence: generate_merged_file_content(original, []) on any text *)

\* characters of the baseline text under SpecIdempotence
MaxTextLen == 4

TextAlphabet == {LF, CR, "a0", "#"}

InitIdempotence ==
    /\ pc = "merge_loop"
    /\ UiIdle
    /\ RunIdle
    /\ AuxIdle
    /\ stdout = <<>>
    /\ MainIdle
    /\ \E b \in SeqsUpTo(TextAlphabet, MaxTextLen) :
        EnterMerge(ScriptFile(MergePath, b, "data0.pak"), <<>>)

NextIdempotence == ProcessLine \/ MergeReturn

SpecIdempotence == InitIdempotence /\ [][NextIdempotence]_vars

----------------------------------------------------------------------------
(* merge.py main: grouping the mods' scripts and merging each group *)

\* str.lower() on the paths of the model
Lower(path) ==
    CASE path \in {"Scripts/X.scr", "Scripts/x.scr"} -> "scripts/x.scr"
      [] path = "X.scr" -> "x.scr"
      [] OTHER -> path

\* d[k] = v on a dict held as a function
DictSet(d, k, v) == [x \in DOMAIN d \cup {k} |-> IF x = k THEN v ELSE d[x]]

\* mod_file_groups[scr.full_path_in_pak].append(scr), for every script in order
RECURSIVE GroupByPath(_)
GroupByPath(scripts) ==
    IF scripts = <<>> THEN <<>>
    ELSE LET prev == GroupByPath(SubSeq(scripts, 1, Len(scripts) - 1))
             scr == scripts[Len(scripts)]
             at == {i \in 1..Len(prev) : prev[i].path = scr.full_path_in_pak}
         IN  IF at = {}
             THEN Append(prev, [path |-> scr.full_path_in_pak, scripts |-> <<scr>>])
             ELSE [prev EXCEPT ![Min(at)].scripts = Append(@, scr)]

\* the places of original_scripts whose path matches file_path, whatever the case
OriginalsAt(scripts, file_path) ==
    {i \in 1..Len(scripts) : Lower(scripts[i].full_path_in_pak) = Lower(file_path)}

\* next((f for f in original_scripts if ....lower() == file_path.lower()), None)
FindOriginal(scripts, file_path) ==
    IF OriginalsAt(scripts, file_path) = {} THEN None
    ELSE scripts[Min(OriginalsAt(scripts, file_path))]

\* the single-mod test with the merge taken whenever the baseline has the file
only_one_mod_never(mods_touching_this_file) == FALSE

\* len(mods_touching_this_file) == 1
only_one_mod(mods_touching_this_file) == Len(mods_touching_this_file) = 1

\* the first lines of generate_merged_file_content, as main calls it
CallMerge(orig, ms) ==
    /\ original' = orig
    /\ mods' = ms
    /\ original_map' = LineMap(orig.content)
    /\ mod_maps' = ModMaps(ms)
    /\ original_lines' = SplitContent(orig.content)
    /\ line_i' = 1
    /\ final_content' = <<>>
    /\ resolutions' = <<>>
    /\ preferred_mod_source' = EntryPreferred(preferred_mod_source)
    /\ auto_resolved_count' = EntryAutoResolved(auto_resolved_count)
    /\ choice' = -1
    /\ merged_content' = None

\* for scr in modded_scripts: mod_file_groups[...].append(scr)
MainGroup ==
    /\ pc = "main_group"
    /\ UNCHANGED auxVars
    /\ UNCHANGED uiVars
    /\ UNCHANGED runVars
    /\ mod_file_groups' = GroupByPath(modded_scripts)
    /\ file_i' = 1
    /\ pc' = "main_loop"
    /\ UNCHANGED <<stdout, original_scripts, modded_scripts, final_file_contents, mergeVars>>

\* one pass of the loop over mod_file_groups, up to the call of the merge;
\* past the last group, the loop is left
MainLoop ==
    /\ pc = "main_loop"
    /\ UNCHANGED auxVars
    /\ UNCHANGED uiVars
    /\ UNCHANGED runVars
    /\ IF file_i > Len(mod_file_groups)
       THEN /\ pc' = "main_merged"
            /\ UNCHANGED <<final_file_contents, file_i, mergeVars>>
       ELSE LET file_path == mod_file_groups[file_i].path
                mods_touching_this_file == mod_file_groups[file_i].scripts
                original_file == FindOriginal(original_scripts, file_path)
            IN  IF only_one_mod(mods_touching_this_file)
                   \/ OriginalsAt(original_scripts, file_path) = {}
                THEN /\ final_file_contents' =
                            DictSet(final_file_contents, file_path,
                                    mods_touching_this_file[1].content)
                     /\ file_i' = file_i + 1
                     /\ UNCHANGED <<pc, mergeVars>>
                ELSE /\ CallMerge(original_file, mods_touching_this_file)
                     /\ pc' = "merge_loop"
                     /\ UNCHANGED <<final_file_contents, file_i>>
    /\ UNCHANGED <<stdout, original_scripts, modded_scripts, mod_file_groups>>

\* final_file_contents[file_path] = merged_content
MainStore ==
    /\ pc = "returned"
    /\ UNCHANGED auxVars
    /\ UNCHANGED uiVars
    /\ UNCHANGED runVars
    /\ final_file_contents' =
            DictSet(final_file_contents, mod_file_groups[file_i].path, merged_content)
    /\ file_i' = file_i + 1
    /\ pc' = "main_loop"
    /\ UNCHANGED <<stdout, original_scripts, modded_scripts, mod_file_groups, mergeVars>>

----------------------------------------------------------------------------
(* SpecMain: one run of main from the grouping on *)

\* accepted mods under SpecMain
MaxMainMods == 2

MainPaths == {"scripts/x.scr", "scripts/y.scr"}

\* the baseline's copy of a path: its path as the package spells it, its text
MainOriginals(path) ==
    {ScriptFile(p, c, "data0.pak") :
        p \in (IF path = "scripts/x.scr" THEN {path, "Scripts/X.scr"} ELSE {path}),
        c \in {<<"a0">>, <<"a0", LF, "b0">>}}

\* the texts the i-th mod may hold for a path
MainModContents(i) ==
    IF i % 2 = 1 THEN {<<"a1">>, <<"a1", LF, "b1">>} ELSE {<<"a2">>, <<"a2", LF, "b2">>}

\* the scripts of the i-th mod, in the order its package lists them
MainModScripts(i) ==
    {ss \in SeqsUpTo({ScriptFile(p, c, ModNames[i]) : p \in MainPaths, c \in MainModContents(i)}, 2) :
        \A j, k \in 1..Len(ss) : j # k => ss[j].full_path_in_pak # ss[k].full_path_in_pak}

RECURSIVE Flatten(_)
Flatten(ss) == IF ss = <<>> THEN <<>> ELSE Head(ss) \o Flatten(Tail(ss))

\* no call of generate_merged_file_content has been made
MergeIdle ==
    /\ original = None
    /\ mods = <<>>
    /\ original_map = <<>>
    /\ mod_maps = <<>>
    /\ original_lines = <<>>
    /\ line_i = 0
    /\ final_content = <<>>
    /\ resolutions = <<>>
    /\ preferred_mod_source = None
    /\ auto_resolved_count = 0
    /\ choice = -1
    /\ merged_content = None

InitMain ==
    /\ pc = "main_group"
    /\ UiIdle
    /\ RunIdle
    /\ AuxIdle
    /\ stdout = <<>>
    /\ MergeIdle
    /\ mod_file_groups = <<>>
    /\ final_file_contents = <<>>
    /\ file_i = 0
    /\ \E ox \in SeqsUpTo(MainOriginals("scripts/x.scr"), 1),
          oy \in SeqsUpTo(MainOriginals("scripts/y.scr"), 1) :
        original_scripts = ox \o oy
    /\ \E per_mod \in [1..MaxMainMods -> UNION {MainModScripts(i) : i \in 1..MaxMainMods}] :
        /\ \A i \in 1..MaxMainMods : per_mod[i] \in MainModScripts(i)
        /\ modded_scripts = Flatten(per_mod)

NextMain == MainGroup \/ MainLoop \/ ProcessLine \/ ReadInput \/ MergeReturn \/ MainStore

SpecMain == InitMain /\ [][NextMain]_vars

----------------------------------------------------------------------------
(* modmanager.py merge_scripts: its pure parts *)

\* the chunks of the GUI's texts that try_parse_key_local gives a key
LocalKeyedChunks == {"a0", "a1", "a2", "s0", "s1", "s2"}

\* f"{lhs}_{rhs.split()[0]}" of a line made of one chunk: the first two
\* white-space separated tokens, which for Set("a", 0) hold the value
LocalChunkKey(c) ==
    CASE c \in {"s0", "s1", "s2"} -> "set_a"
      [] c = "a0" -> "Set(\"a\",_0)"
      [] c = "a1" -> "Set(\"a\",_1)"
      [] c = "a2" -> "Set(\"a\",_2)"

\* merge_scripts try_parse_key_local, on lines of one chunk
try_parse_key_local(line) ==
    LET t == RStrip(LStrip(line))
    IN  IF t = <<>> \/ Head(t) = "#" \/ Head(t) \notin LocalKeyedChunks THEN None
        ELSE LocalChunkKey(Head(t))

\* modmanager.py ScriptFile
UiScriptFile(rel_path, content, source) ==
    [rel_path |-> rel_path, content |-> content, source |-> source]

\* a dict in insertion order: key in d, d[key], d[key] = line, d.values()
MapKeys(m) == {m[i].key : i \in 1..Len(m)}

MapGet(m, k) == m[CHOOSE i \in 1..Len(m) : m[i].key = k].line

MapSet(m, k, line) ==
    IF k \in MapKeys(m)
    THEN [i \in 1..Len(m) |-> IF m[i].key = k THEN [key |-> k, line |-> line] ELSE m[i]]
    ELSE Append(m, [key |-> k, line |-> line])

MapValues(m) == [i \in 1..Len(m) |-> m[i].line]

\* the loop that fills original_map: the first line of each key, in order
RECURSIVE LocalLineMap(_)
LocalLineMap(lines) ==
    IF lines = <<>> THEN <<>>
    ELSE LET prev == LocalLineMap(SubSeq(lines, 1, Len(lines) - 1))
             line == lines[Len(lines)]
             key == try_parse_key_local(line)
         IN  IF key # None /\ key \notin MapKeys(prev)
             THEN Append(prev, [key |-> key, line |-> line])
             ELSE prev

\* for s in original_scripts: originals[s.rel_path] = s
RECURSIVE OriginalsOf(_)
OriginalsOf(scripts) ==
    IF scripts = <<>> THEN <<>>
    ELSE DictSet(OriginalsOf(SubSeq(scripts, 1, Len(scripts) - 1)),
                 scripts[Len(scripts)].rel_path, scripts[Len(scripts)])

\* for s in mod_scripts: by_rel[s.rel_path].append(s)
RECURSIVE GroupByRel(_)
GroupByRel(scripts) ==
    IF scripts = <<>> THEN <<>>
    ELSE LET prev == GroupByRel(SubSeq(scripts, 1, Len(scripts) - 1))
             s == scripts[Len(scripts)]
             at == {i \in 1..Len(prev) : prev[i].path = s.rel_path}
         IN  IF at = {}
             THEN Append(prev, [path |-> s.rel_path, scripts |-> <<s>>])
             ELSE [prev EXCEPT ![Min(at)].scripts = Append(@, s)]

\* the mod line the loops of merge_scripts stand at, and its key
CurrentModLine == SplitContent(mods[mod_i].content)[mod_line_i]

CurrentLocalKey == try_parse_key_local(CurrentModLine)

\* the two options handed to ask_user
ask_options ==
    << [line |-> MapGet(original_map, CurrentLocalKey), source |-> original.source],
       [line |-> CurrentModLine, source |-> mods[mod_i].source] >>

\* the loops move on to the mod's next line, or to the next mod
NextModLine ==
    IF mod_line_i < Len(SplitContent(mods[mod_i].content))
    THEN mod_i' = mod_i /\ mod_line_i' = mod_line_i + 1
    ELSE mod_i' = mod_i + 1 /\ mod_line_i' = 1

----------------------------------------------------------------------------
(* modmanager.py run_merge and merge_scripts: the steps *)

\* what run_merge and merge_scripts never touch
consoleVars == <<stdout, mod_file_groups, final_file_contents, file_i, mod_maps,
                 original_lines, line_i, final_content, resolutions,
                 preferred_mod_source, auto_resolved_count, choice, merged_content>>

\* originals and by_rel are filled; merged.zip is opened
RunMergeGroup ==
    /\ pc = "run_group"
    /\ UNCHANGED auxVars
    /\ UNCHANGED runVars
    /\ originals' = OriginalsOf(original_scripts)
    /\ by_rel' = GroupByRel(modded_scripts)
    /\ rel_i' = 1
    /\ zf' = <<>>
    /\ merged_count' = 0
    /\ pc' = "run_loop"
    /\ UNCHANGED <<consoleVars, original_scripts, modded_scripts, original, mods,
                   original_map, preferred_source_for_file, mod_i, mod_line_i, dialogs>>

\* one pass of the loop over by_rel, up to the first lines of merge_scripts;
\* past the last group, the loop is left
RunMergeLoop ==
    /\ pc = "run_loop"
    /\ UNCHANGED auxVars
    /\ UNCHANGED runVars
    /\ IF rel_i > Len(by_rel)
       THEN /\ pc' = "run_merged"
            /\ UNCHANGED <<rel_i, zf, merged_count, original, mods, original_map,
                           preferred_source_for_file, mod_i, mod_line_i>>
       ELSE LET rel_path == by_rel[rel_i].path
            IN  IF rel_path \in DOMAIN originals
                THEN /\ original' = originals[rel_path]
                     /\ mods' = by_rel[rel_i].scripts
                     /\ original_map' = LocalLineMap(SplitContent(originals[rel_path].content))
                     /\ preferred_source_for_file' = None
                     /\ mod_i' = 1
                     /\ mod_line_i' = 1
                     /\ pc' = "scripts_loop"
                     /\ UNCHANGED <<rel_i, zf, merged_count>>
                ELSE /\ zf' = Append(zf, [rel_path |-> rel_path,
                            content |-> by_rel[rel_i].scripts[Len(by_rel[rel_i].scripts)].content])
                     /\ merged_count' = merged_count + 1
                     /\ rel_i' = rel_i + 1
                     /\ UNCHANGED <<pc, original, mods, original_map,
                                    preferred_source_for_file, mod_i, mod_line_i>>
    /\ UNCHANGED <<consoleVars, original_scripts, modded_scripts, originals, by_rel, dialogs>>

\* one pass of the loops over the mods and their lines, up to the call of ask_user
MergeScriptsLine ==
    /\ pc = "scripts_loop"
    /\ UNCHANGED auxVars
    /\ UNCHANGED runVars
    /\ mod_i <= Len(mods)
    /\ LET line == CurrentModLine
           key == CurrentLocalKey
       IN  IF key = None
           THEN NextModLine /\ UNCHANGED <<pc, original_map, dialogs>>
           ELSE IF key \in MapKeys(original_map) /\ MapGet(original_map, key) # line
           THEN IF preferred_source_for_file = original.source
                THEN NextModLine /\ UNCHANGED <<pc, original_map, dialogs>>
                ELSE IF preferred_source_for_file = mods[mod_i].source
                THEN /\ original_map' = MapSet(original_map, key, line)
                     /\ NextModLine
                     /\ UNCHANGED <<pc, dialogs>>
                ELSE /\ dialogs' = Append(dialogs,
                            [path |-> original.rel_path, key |-> key, options |-> ask_options])
                     /\ pc' = "ask_user"
                     /\ UNCHANGED <<original_map, mod_i, mod_line_i>>
           ELSE /\ original_map' = MapSet(original_map, key, line)
                /\ NextModLine
                /\ UNCHANGED <<pc, dialogs>>
    /\ UNCHANGED <<consoleVars, original_scripts, modded_scripts, originals, by_rel, rel_i,
                   zf, merged_count, original, mods, preferred_source_for_file>>

\* the dialog is closed with OK (the selected option, the check box) or is
\* cancelled (the first option, no preference); the choice is applied
AskUserReturn ==
    /\ pc = "ask_user"
    /\ UNCHANGED auxVars
    /\ UNCHANGED runVars
    /\ \E ok \in BOOLEAN, idx \in {0, 1}, prefer \in BOOLEAN :
        LET chosen_line == IF ok THEN ask_options[idx + 1].line ELSE ask_options[1].line
            prefer_src == IF ok /\ prefer THEN ask_options[idx + 1].source ELSE None
        IN  /\ original_map' = MapSet(original_map, CurrentLocalKey, chosen_line)
            /\ preferred_source_for_file' =
                    IF prefer_src # None THEN prefer_src ELSE preferred_source_for_file
    /\ NextModLine
    /\ pc' = "scripts_loop"
    /\ UNCHANGED <<consoleVars, original_scripts, modded_scripts, originals, by_rel, rel_i,
                   zf, merged_count, original, mods, dialogs>>

\* merge_scripts returns the joined values; run_merge writes them to merged.zip
MergeScriptsReturn ==
    /\ pc = "scripts_loop"
    /\ UNCHANGED auxVars
    /\ UNCHANGED runVars
    /\ mod_i > Len(mods)
    /\ zf' = Append(zf, [rel_path |-> by_rel[rel_i].path,
                         content |-> JoinLF(MapValues(original_map))])
    /\ merged_count' = merged_count + 1
    /\ rel_i' = rel_i + 1
    /\ pc' = "run_loop"
    /\ UNCHANGED <<consoleVars, original_scripts, modded_scripts, originals, by_rel, original,
                   mods, original_map, preferred_source_for_file, mod_i, mod_line_i, dialogs>>

----------------------------------------------------------------------------
(* SpecGui: one run of run_merge from the grouping on *)

\* mods of the run under SpecGui
MaxUiMods == 2

UiPaths == {"scripts/x.scr", "scripts/y.scr"}

\* data0.pak's copy of scripts/x.scr; it has no scripts/y.scr
UiBaseContents == {<<"s0">>, <<"a0", LF, "s0">>, <<"#", LF, "s0">>}

\* a mod's copy of scripts/x.scr
UiModContents ==
    {<<"s0">>, <<"s1">>, <<"s2">>, <<"a1">>, <<"#", LF, "s1">>, <<"s1", LF, "s2">>}

\* the scripts of the i-th mod: scripts/x.scr or not, then scripts/y.scr or not
UiModScripts(i) ==
    {xs \o ys :
        xs \in {<<>>} \cup {<<UiScriptFile("scripts/x.scr", c, ModNames[i])>> : c \in UiModContents},
        ys \in {<<>>, <<UiScriptFile("scripts/y.scr", <<"s1">>, ModNames[i])>>}}

InitGui ==
    /\ pc = "run_group"
    /\ stdout = <<>>
    /\ MergeIdle
    /\ UiIdle
    /\ RunIdle
    /\ AuxIdle
    /\ mod_file_groups = <<>>
    /\ final_file_contents = <<>>
    /\ file_i = 0
    /\ original_scripts \in
            {<<>>} \cup {<<UiScriptFile("scripts/x.scr", c, "data0.pak")>> : c \in UiBaseContents}
    /\ \E per_mod \in [1..MaxUiMods -> UNION {UiModScripts(i) : i \in 1..MaxUiMods}] :
        /\ \A i \in 1..MaxUiMods : per_mod[i] \in UiModScripts(i)
        /\ modded_scripts = Flatten(per_mod)

NextGui == RunMergeGroup \/ RunMergeLoop \/ MergeScriptsLine \/ AskUserReturn \/ MergeScriptsReturn

SpecGui == InitGui /\ [][NextGui]_vars

----------------------------------------------------------------------------
(* Archives: what the normalizers and the loaders read *)

\* mods of a whole run
MaxRunMods == 2

\* the mods' archives when they are zip files, and the names derived from them
ZipNames == <<"A.zip", "B.zip", "C.zip">>

\* Path(mod_file).stem
Stem(name) ==
    CASE name \in {"A.pak", "A.zip"} -> "A"
      [] name \in {"B.pak", "B.zip"} -> "B"
      [] name \in {"C.pak", "C.zip"} -> "C"
      [] name = "A_fixed.zip" -> "A_fixed"
      [] name = "B_fixed.zip" -> "B_fixed"
      [] name = "C_fixed.zip" -> "C_fixed"

\* f"{mod_name}_fixed.zip"
FixedZipName(mod_name) ==
    CASE mod_name = "A" -> "A_fixed.zip"
      [] mod_name = "B" -> "B_fixed.zip"
      [] mod_name = "C" -> "C_fixed.zip"

\* os.path.basename on the paths of the model
Basename(path) ==
    CASE path \in {"scripts/x.scr", "Scripts/x.scr", "other/x.scr", "x.scr"} -> "x.scr"
      [] path \in {"Scripts/X.scr", "X.scr"} -> "X.scr"
      [] path = "scripts/y.scr" -> "y.scr"
      [] path = "scripts/new.scr" -> "new.scr"

\* an entry of a package: ok is whether its bytes can be read (the CRC matches)
Entry(path, content, ok) == [path |-> path, content |-> content, ok |-> ok]

\* a package: ok is whether zipfile.ZipFile opens it
Pak(ok, entries) == [ok |-> ok, entries |-> entries]

\* a mod archive: a package, or a zip file that holds packages
ModFile(name, kind, paks) == [name |-> name, kind |-> kind, paks |-> paks]

\* data0.pak with its one script
Data0(content) == Pak(TRUE, <<Entry("scripts/x.scr", content, TRUE)>>)

\* the archives the i-th mod may be, its own line being chunk c
RunModFiles(i, c) ==
    { ModFile(ModNames[i], "pak", <<Pak(TRUE, <<Entry("scripts/x.scr", <<c>>, TRUE)>>)>>),
      ModFile(ModNames[i], "pak", <<Pak(TRUE, <<Entry("x.scr", <<c>>, TRUE)>>)>>),
      ModFile(ModNames[i], "pak", <<Pak(TRUE, <<Entry("scripts/x.scr", <<c>>, TRUE),
                                                Entry("scripts/new.scr", <<"b1">>, TRUE)>>)>>),
      ModFile(ModNames[i], "pak", <<Pak(TRUE, <<Entry("x.scr", <<c>>, TRUE),
                                                Entry("scripts/new.scr", <<"b1">>, TRUE)>>)>>),
      ModFile(ModNames[i], "pak", <<Pak(TRUE, <<Entry("Scripts/x.scr", <<c>>, TRUE)>>)>>),
      ModFile(ModNames[i], "pak", <<Pak(TRUE, <<Entry("Scripts/X.scr", <<c>>, TRUE)>>)>>),
      ModFile(ModNames[i], "pak", <<Pak(FALSE, <<>>)>>),
      ModFile(ZipNames[i], "zip", <<Pak(TRUE, <<Entry("scripts/x.scr", <<c>>, TRUE)>>),
                                    Pak(TRUE, <<Entry("scripts/new.scr", <<"b1">>, FALSE)>>)>>) }

\* the lists of up to n mods, the i-th drawn from its own archives
RunModLists(n, chunks) ==
    UNION {{ms \in [1..k -> UNION {RunModFiles(i, chunks[i]) : i \in 1..k}] :
                \A i \in 1..k : ms[i] \in RunModFiles(i, chunks[i])} : k \in 0..n}

\* the numbered packages a source directory may hold beside data0.pak
SourceDirs == {{}, {1, 2}, {1, 2, 3}, {1, 4}, {5}}

----------------------------------------------------------------------------
(* merge.py fix_mod_structures and load_all_scripts_from_mods_folder *)

\* the index with basenames told apart by their letter case
RECURSIVE get_game_file_structure_exact(_)
get_game_file_structure_exact(entries) ==
    IF entries = <<>> THEN <<>>
    ELSE LET before == get_game_file_structure_exact(SubSeq(entries, 1, Len(entries) - 1))
             full_path == entries[Len(entries)].path
         IN  IF Basename(full_path) \in DOMAIN before
             THEN before
             ELSE DictSet(before, Basename(full_path), full_path)

\* basename -> path of the first script with that basename, whatever the case;
\* the paths keep their "/" (the code holds them with "\\" on both sides of
\* every comparison)
RECURSIVE get_game_file_structure(_)
get_game_file_structure(entries) ==
    IF entries = <<>> THEN <<>>
    ELSE LET structure == get_game_file_structure(SubSeq(entries, 1, Len(entries) - 1))
             entry == entries[Len(entries)].path
             file_name == Basename(entry)
         IN  IF \E k \in DOMAIN structure : Lower(k) = Lower(file_name)
             THEN structure
             ELSE DictSet(structure, file_name, entry)

\* baseline packages of up to this many scripts
MaxGameEntries == 3

\* the paths a baseline package may list
GamePaths == {"scripts/x.scr", "other/x.scr", "Scripts/X.scr", "scripts/y.scr"}

\* one pass of the loop of get_game_file_structure: the entry is indexed, or
\* the duplicate warning is printed
ScanEntry ==
    /\ pc = "scan"
    /\ scan_i <= Len(game_entries)
    /\ game_structure' = get_game_file_structure(SubSeq(game_entries, 1, scan_i))
    /\ stdout' =
            IF \E k \in DOMAIN game_structure :
                    Lower(k) = Lower(Basename(game_entries[scan_i].path))
            THEN Append(stdout, Event("duplicate", game_entries[scan_i].path,
                                      Basename(game_entries[scan_i].path), 0))
            ELSE stdout
    /\ scan_i' = scan_i + 1
    /\ UNCHANGED <<pc, mainVars, mergeVars, uiVars, runVars, game_entries, ui_q,
                   last_result, workers, widgets>>

\* return structure
ScanReturn ==
    /\ pc = "scan"
    /\ scan_i > Len(game_entries)
    /\ pc' = "scanned"
    /\ UNCHANGED <<stdout, mainVars, mergeVars, uiVars, runVars, auxVars>>

InitStructure ==
    /\ pc = "scan"
    /\ stdout = <<>>
    /\ MainIdle
    /\ MergeIdle
    /\ UiIdle
    /\ RunIdle
    /\ game_entries \in SeqsUpTo({Entry(p, <<>>, TRUE) : p \in GamePaths}, MaxGameEntries)
    /\ game_structure = <<>>
    /\ scan_i = 1
    /\ ui_q = <<>>
    /\ last_result = None
    /\ workers = <<>>
    /\ widgets = "normal"

NextStructure == ScanEntry \/ ScanReturn

SpecStructure == InitStructure /\ [][NextStructure]_vars

\* the loop over a package's entries: a script with a known basename is read
\* (which raises on a damaged entry) and compared with its canonical path, one
\* with an unknown basename is listed and not read
RECURSIVE ReadEntriesForFixing(_, _, _)
ReadEntriesForFixing(entries, file_structure, acc) ==
    IF entries = <<>> \/ acc.raised THEN acc
    ELSE LET entry == Head(entries)
             file_name == Basename(entry.path)
             next ==
                IF file_name \in DOMAIN file_structure
                THEN IF ~entry.ok THEN [acc EXCEPT !.raised = TRUE]
                     ELSE [acc EXCEPT
                            !.needs_fixing_flag =
                                @ \/ Lower(entry.path) # Lower(file_structure[file_name]),
                            !.mod_scripts =
                                Append(@, Entry(file_structure[file_name], entry.content, TRUE))]
                ELSE [acc EXCEPT !.unknown_files = Append(@, entry.path)]
         IN  ReadEntriesForFixing(Tail(entries), file_structure, next)

\* one call: needs_fixing_flag is the callee's own copy of the caller's bool,
\* unknown_files is the caller's list
read_scripts_from_single_pak_for_fixing(pak, needs_fixing_flag, file_structure, unknown_files) ==
    IF ~pak.ok
    THEN [raised |-> TRUE, mod_scripts |-> <<>>, unknown_files |-> unknown_files,
          needs_fixing_flag |-> needs_fixing_flag]
    ELSE ReadEntriesForFixing(pak.entries, file_structure,
            [raised |-> FALSE, mod_scripts |-> <<>>, unknown_files |-> unknown_files,
             needs_fixing_flag |-> needs_fixing_flag])

\* the try block of fix_mod_structures up to the test of unknown_files: every
\* package of the mod is read; needs_fixing stays what line 125 made it, since
\* the calls are given its value and return only the scripts
RECURSIVE FixRead(_, _, _)
FixRead(paks, file_structure, acc) ==
    IF paks = <<>> \/ acc.raised THEN acc
    ELSE LET r == read_scripts_from_single_pak_for_fixing(
                        Head(paks), acc.needs_fixing, file_structure, acc.unknown_files)
         IN  FixRead(Tail(paks), file_structure,
                [raised |-> r.raised,
                 mod_scripts |-> acc.mod_scripts \o r.mod_scripts,
                 unknown_files |-> r.unknown_files,
                 needs_fixing |-> acc.needs_fixing])

\* <mod_name>_fixed.zip: one package mod.pak with the scripts at their canonical paths
FixedCopy(mod_file, mod_scripts) ==
    ModFile(FixedZipName(Stem(mod_file.name)), "zip", <<Pak(TRUE, mod_scripts)>>)

\* what input(...).strip().lower() may give
FixChoices == {"1", "2", ""}

\* the test with only the answer 2 excluding the mod
excluded_by_two(answer) == answer = "2"

\* if choice != "1": the mod is excluded
excluded_by(answer) == answer # "1"

\* one pass of the loop of fix_mod_structures over mod_files; the warning is
\* recorded with the answer given to it
FixMod ==
    /\ pc = "fix_loop"
    /\ UNCHANGED auxVars
    /\ fix_i <= Len(mod_files)
    /\ LET mod_file == mod_files[fix_i]
           mod_name == Stem(mod_file.name)
           file_structure == get_game_file_structure(Data0(<<"a0">>).entries)
           r == FixRead(mod_file.paks, file_structure,
                        [raised |-> FALSE, mod_scripts |-> <<>>, unknown_files |-> <<>>,
                         needs_fixing |-> FALSE])
       IN  IF r.raised
           THEN /\ stdout' = Append(stdout, Event("could-not-process", mod_name, None, 0))
                /\ UNCHANGED valid_mods
           ELSE IF r.unknown_files # <<>>
           THEN \E c \in FixChoices :
                    IF excluded_by(c)
                    THEN /\ stdout' = stdout \o
                                <<Event("unknown-files", mod_name, c, Len(r.unknown_files)),
                                  Event("excluded", mod_name, None, 0)>>
                         /\ UNCHANGED valid_mods
                    ELSE /\ stdout' = stdout \o
                                <<Event("unknown-files", mod_name, c, Len(r.unknown_files)),
                                  Event("original-structure", mod_name, None, 0)>>
                         /\ valid_mods' = Append(valid_mods, mod_file)
           ELSE IF r.needs_fixing
           THEN /\ valid_mods' = Append(valid_mods, FixedCopy(mod_file, r.mod_scripts))
                /\ stdout' = Append(stdout, Event("fixed", mod_name, None, 0))
           ELSE /\ valid_mods' = Append(valid_mods, mod_file)
                /\ stdout' = Append(stdout, Event("correct-structure", mod_name, None, 0))
    /\ fix_i' = fix_i + 1
    /\ UNCHANGED <<pc, mainVars, mergeVars, uiVars, source_dir, source_zips, mod_files,
                   staging, existing_paks, next_pak_num, source_start, ui_log>>

\* every entry that ends with .scr is read; a damaged one raises and the
\* scripts read so far from this package are lost with the frame
RECURSIVE ReadEntries(_, _, _)
ReadEntries(entries, source_name, acc) ==
    IF entries = <<>> \/ acc.raised THEN acc
    ELSE LET entry == Head(entries)
         IN  ReadEntries(Tail(entries), source_name,
                IF ~entry.ok THEN [raised |-> TRUE, scripts |-> <<>>]
                ELSE [acc EXCEPT !.scripts =
                        Append(@, ScriptFile(entry.path, entry.content, source_name))])

read_scripts_from_single_pak(pak, source_name) ==
    IF ~pak.ok THEN [raised |-> TRUE, scripts |-> <<>>]
    ELSE ReadEntries(pak.entries, source_name, [raised |-> FALSE, scripts |-> <<>>])

\* the try block of load_all_scripts_from_mods_folder for one archive:
\* all_scripts.extend(...) package after package, until one raises
RECURSIVE LoadPaks(_, _, _)
LoadPaks(paks, source_name, acc) ==
    IF paks = <<>> \/ acc.raised THEN acc
    ELSE LET r == read_scripts_from_single_pak(Head(paks), source_name)
         IN  LoadPaks(Tail(paks), source_name,
                [raised |-> r.raised, scripts |-> acc.scripts \o r.scripts])

\* load_all_scripts_from_mods_folder: the scripts, and the errors it prints
RECURSIVE load_all_scripts_from_mods_folder(_)
load_all_scripts_from_mods_folder(files) ==
    IF files = <<>> THEN [all_scripts |-> <<>>, out |-> <<>>]
    ELSE LET prev == load_all_scripts_from_mods_folder(SubSeq(files, 1, Len(files) - 1))
             mod_file_path == files[Len(files)]
             r == LoadPaks(mod_file_path.paks, mod_file_path.name,
                           [raised |-> FALSE, scripts |-> <<>>])
         IN  [all_scripts |-> prev.all_scripts \o r.scripts,
              out |-> IF r.raised
                      THEN Append(prev.out, Event("could-not-read", mod_file_path.name, None, 0))
                      ELSE prev.out]

----------------------------------------------------------------------------
(* merge.py main: from its first line to the new package *)

Max(S) == CHOOSE x \in S : \A y \in S : y <= x

\* if next_pak_num < 3: next_pak_num = 3
ReservedFloor == 3

\* the loop over existing_paks and the floor: one more than the highest
\* number found, and at least 3
NextPakNum(nums) ==
    LET next == IF nums = {} THEN 0 ELSE Max(nums) + 1
    IN  IF next < ReservedFloor THEN ReservedFloor ELSE next

\* the test for data0.pak always passing
data0_exists_always(dir) == TRUE

\* game_pak_path.is_file(), and data0.exists() in modmanager.py
data0_exists(dir) == 0 \in dir

\* the pcs at which main can be interrupted: before the package is renamed
ConsoleRunning == {"fix_loop", "main_group", "main_loop", "merge_loop", "input", "returned",
                   "main_merged", "main_staged", "main_archived"}

\* the test for data0.pak; then fix_mod_structures starts its loop
MainStart ==
    /\ pc = "main_start"
    /\ UNCHANGED auxVars
    /\ IF ~data0_exists(source_dir)
       THEN /\ stdout' = Append(stdout, Event("data0-not-found", None, None, 0))
            /\ pc' = "exited"
            /\ UNCHANGED fix_i
       ELSE /\ fix_i' = 1
            /\ pc' = "fix_loop"
            /\ UNCHANGED stdout
    /\ UNCHANGED <<mainVars, mergeVars, uiVars, source_dir, source_zips, mod_files, valid_mods,
                   staging, existing_paks, next_pak_num, source_start, ui_log>>

\* fix_mod_structures has returned: the scripts of the source packages and
\* of the valid mods are loaded
MainLoad ==
    /\ pc = "fix_loop"
    /\ UNCHANGED auxVars
    /\ fix_i > Len(mod_files)
    /\ original_scripts' = read_scripts_from_single_pak(Data0(<<"a0">>), "data0.pak").scripts
    /\ modded_scripts' = load_all_scripts_from_mods_folder(valid_mods).all_scripts
    /\ stdout' = stdout \o load_all_scripts_from_mods_folder(valid_mods).out
    /\ pc' = "main_group"
    /\ UNCHANGED <<mod_file_groups, final_file_contents, file_i, mergeVars, uiVars, runVars>>

\* staging_area made anew and left empty
write_staging_none(contents) == <<>>

\* for file_entry, content in final_file_contents.items(): the file is written
write_staging(contents) == contents

\* staging_area is made anew and every merged file is written into it
MainStage ==
    /\ pc = "main_merged"
    /\ UNCHANGED auxVars
    /\ staging' = write_staging(final_file_contents)
    /\ pc' = "main_staged"
    /\ UNCHANGED <<stdout, mainVars, mergeVars, uiVars, source_dir, source_zips, mod_files,
                   valid_mods, fix_i, existing_paks, next_pak_num, source_start, ui_log>>

\* the number is chosen, a package of that name is removed, and
\* shutil.make_archive writes data<N>.zip into the source directory
MainMakeArchive ==
    /\ pc = "main_staged"
    /\ UNCHANGED auxVars
    /\ existing_paks' = source_dir
    /\ next_pak_num' = NextPakNum(source_dir)
    /\ source_dir' = source_dir \ {NextPakNum(source_dir)}
    /\ source_zips' = source_zips \cup {NextPakNum(source_dir)}
    /\ pc' = "main_archived"
    /\ UNCHANGED <<stdout, mainVars, mergeVars, uiVars, mod_files, valid_mods, fix_i, staging,
                   source_start, ui_log>>

\* data<N>.zip is renamed to data<N>.pak; staging_area is removed
MainRename ==
    /\ pc = "main_archived"
    /\ UNCHANGED auxVars
    /\ IF next_pak_num \in source_zips
       THEN /\ source_zips' = source_zips \ {next_pak_num}
            /\ source_dir' = source_dir \cup {next_pak_num}
       ELSE UNCHANGED <<source_dir, source_zips>>
    /\ stdout' = Append(stdout, Event("success", None, None, next_pak_num))
    /\ staging' = <<>>
    /\ pc' = "main_done"
    /\ UNCHANGED <<mainVars, mergeVars, uiVars, mod_files, valid_mods, fix_i, existing_paks,
                   next_pak_num, source_start, ui_log>>

\* the process is interrupted or an exception leaves main
MainAbort ==
    /\ pc \in ConsoleRunning
    /\ UNCHANGED auxVars
    /\ pc' = "aborted"
    /\ UNCHANGED <<stdout, mainVars, mergeVars, uiVars, runVars>>

\* the mods' own lines under merge.py
ConsoleChunks == <<"a1", "a2", "a1">>

InitConsoleRun ==
    /\ pc = "main_start"
    /\ stdout = <<>>
    /\ MainIdle
    /\ MergeIdle
    /\ UiIdle
    /\ \E others \in SourceDirs, data0 \in {{0}, {}} : source_dir = others \cup data0
    /\ source_start = source_dir
    /\ source_zips = {}
    /\ mod_files \in RunModLists(MaxRunMods, ConsoleChunks)
    /\ valid_mods = <<>>
    /\ fix_i = 0
    /\ staging = <<>>
    /\ existing_paks = {}
    /\ next_pak_num = -1
    /\ ui_log = <<>>
    /\ AuxIdle


----------------------------------------------------------------------------
(* modmanager.py fix_mod_structures_ui and its loaders *)

\* GameStructure.known: the paths of the baseline's scripts
GameStructureKnown(entries) == {entries[i].path : i \in 1..Len(entries)}

\* p.endswith("/" + base)
EndsWithBase(p, base) == Basename(p) = base /\ p # base

\* the loop over a package's entries: every entry is read (which raises on a
\* damaged one); a script off its known path is given the known path of its
\* basename and sets needs_fixing[0], one without a known basename is listed
RECURSIVE UiReadEntriesForFixing(_, _, _)
UiReadEntriesForFixing(entries, known, acc) ==
    IF entries = <<>> \/ acc.raised THEN acc
    ELSE LET entry == Head(entries)
             norm == entry.path
             matches == {p \in known : EndsWithBase(p, Basename(norm))}
             next ==
                IF ~entry.ok THEN [acc EXCEPT !.raised = TRUE]
                ELSE IF norm \in known
                THEN [acc EXCEPT !.scripts = Append(@, Entry(norm, entry.content, TRUE))]
                ELSE IF matches # {}
                THEN [acc EXCEPT
                        !.needs_fixing = TRUE,
                        !.scripts = Append(@, Entry(CHOOSE p \in matches : TRUE,
                                                    entry.content, TRUE))]
                ELSE [acc EXCEPT
                        !.unknown_files = Append(@, norm),
                        !.scripts = Append(@, Entry(norm, entry.content, TRUE))]
         IN  UiReadEntriesForFixing(Tail(entries), known, next)

\* the calls of read_scripts_from_single_pak_for_fixing for the packages of
\* one mod: needs_fixing and unknown_files are lists the calls write into
RECURSIVE UiFixRead(_, _, _)
UiFixRead(paks, known, acc) ==
    IF paks = <<>> \/ acc.raised THEN acc
    ELSE UiFixRead(Tail(paks), known,
            IF ~Head(paks).ok THEN [acc EXCEPT !.raised = TRUE]
            ELSE UiReadEntriesForFixing(Head(paks).entries, known, acc))

\* the answers of messagebox.askyesno
AskYesNo == BOOLEAN

\* one pass of the loop of fix_mod_structures_ui over mod_paths; the message
\* box is recorded with the answer given to it
UiFixMod ==
    /\ pc = "ui_fix_loop"
    /\ UNCHANGED auxVars
    /\ fix_i <= Len(mod_files)
    /\ LET mod_file == mod_files[fix_i]
           mod_name == Stem(mod_file.name)
           known == GameStructureKnown(Data0(<<"s0">>).entries)
           r == UiFixRead(mod_file.paks, known,
                          [raised |-> FALSE, scripts |-> <<>>, unknown_files |-> <<>>,
                           needs_fixing |-> FALSE])
       IN  IF r.raised
           THEN /\ ui_log' = Append(ui_log, Event("error-processing", mod_name, None, 0))
                /\ UNCHANGED valid_mods
           ELSE IF r.unknown_files # <<>>
           THEN \E keep \in AskYesNo :
                    IF ~keep
                    THEN /\ ui_log' = ui_log \o
                                <<Event("askyesno", mod_name, "no", Len(r.unknown_files)),
                                  Event("excluded", mod_name, None, 0)>>
                         /\ UNCHANGED valid_mods
                    ELSE /\ ui_log' = ui_log \o
                                <<Event("askyesno", mod_name, "yes", Len(r.unknown_files)),
                                  Event("keeping", mod_name, None, 0)>>
                         /\ valid_mods' = Append(valid_mods, mod_file)
           ELSE IF r.needs_fixing
           THEN /\ valid_mods' = Append(valid_mods, FixedCopy(mod_file, r.scripts))
                /\ ui_log' = Append(ui_log, Event("fixed", mod_name, None, 0))
           ELSE /\ valid_mods' = Append(valid_mods, mod_file)
                /\ ui_log' = Append(ui_log, Event("structure-ok", mod_name, None, 0))
    /\ fix_i' = fix_i + 1
    /\ UNCHANGED <<pc, stdout, mainVars, mergeVars, uiVars, source_dir, source_zips, mod_files,
                   staging, existing_paks, next_pak_num, source_start>>

\* modmanager.py read_scripts_from_single_pak
\* a byte sequence that no UTF-8 text contains, and the character U+FFFD
InvalidBytes == "xFF"

ReplacementCharacter == "U+FFFD"

\* data.decode("utf-8") does not raise UnicodeDecodeError
utf8_valid(data) == \A k \in 1..Len(data) : data[k] # InvalidBytes

\* data.decode("utf-8", errors="replace")
decode_replace(data) ==
    [k \in 1..Len(data) |->
        IF data[k] = InvalidBytes THEN ReplacementCharacter ELSE data[k]]

\* f.read() on the stream that an earlier f.read() has read to its end
read_again(data) == <<>>

\* content = f.read().decode("utf-8"); in the handler of UnicodeDecodeError
\* the stream is read a second time and that is decoded with replacement
UiDecode(data) ==
    IF utf8_valid(data) THEN data ELSE decode_replace(read_again(data))

RECURSIVE UiReadEntries(_, _, _)
UiReadEntries(entries, source_name, acc) ==
    IF entries = <<>> \/ acc.raised THEN acc
    ELSE LET entry == Head(entries)
         IN  UiReadEntries(Tail(entries), source_name,
                IF ~entry.ok THEN [raised |-> TRUE, scripts |-> <<>>]
                ELSE [acc EXCEPT !.scripts =
                        Append(@, UiScriptFile(entry.path, UiDecode(entry.content),
                                               source_name))])

UiReadPak(pak, source_name) ==
    IF ~pak.ok THEN [raised |-> TRUE, scripts |-> <<>>]
    ELSE UiReadEntries(pak.entries, source_name, [raised |-> FALSE, scripts |-> <<>>])

\* scripts.extend(...) package after package, until one raises
RECURSIVE UiLoadPaks(_, _, _)
UiLoadPaks(paks, source_name, acc) ==
    IF paks = <<>> \/ acc.raised THEN acc
    ELSE LET r == UiReadPak(Head(paks), source_name)
         IN  UiLoadPaks(Tail(paks), source_name,
                [raised |-> r.raised, scripts |-> acc.scripts \o r.scripts])

\* modmanager.py load_all_scripts_from_mods_folder: the scripts, and the errors it prints
RECURSIVE UiLoadAll(_)
UiLoadAll(paths) ==
    IF paths = <<>> THEN [scripts |-> <<>>, out |-> <<>>]
    ELSE LET prev == UiLoadAll(SubSeq(paths, 1, Len(paths) - 1))
             mod_file_path == paths[Len(paths)]
             r == UiLoadPaks(mod_file_path.paks, mod_file_path.name,
                             [raised |-> FALSE, scripts |-> <<>>])
         IN  [scripts |-> prev.scripts \o r.scripts,
              out |-> IF r.raised
                      THEN Append(prev.out, Event("could-not-read", mod_file_path.name, None, 0))
                      ELSE prev.out]

----------------------------------------------------------------------------
(* modmanager.py run_merge: from its first line to the installed package *)

\* next_data_name: the lowest i from 0 on with no data<i>.pak
next_data_name(nums) == Min({i \in 0..(Cardinality(nums) + 1) : i \notin nums})

\* the pcs at which run_merge can be left by an exception
UiRunning == {"ui_fix_loop", "run_group", "run_loop", "scripts_loop", "ask_user", "run_merged"}

\* the test for data0.pak; then fix_mod_structures_ui starts its loop
RunMergeStart ==
    /\ pc = "run_start"
    /\ UNCHANGED auxVars
    /\ IF ~data0_exists(source_dir)
       THEN /\ ui_log' = Append(ui_log, Event("showerror", None, None, 0))
            /\ pc' = "run_none"
            /\ UNCHANGED fix_i
       ELSE /\ fix_i' = 1
            /\ pc' = "ui_fix_loop"
            /\ UNCHANGED ui_log
    /\ UNCHANGED <<stdout, mainVars, mergeVars, uiVars, source_dir, source_zips, mod_files,
                   valid_mods, staging, existing_paks, next_pak_num, source_start>>

\* fix_mod_structures_ui has returned: data0.pak and the valid mods are loaded
RunMergeLoad ==
    /\ pc = "ui_fix_loop"
    /\ UNCHANGED auxVars
    /\ fix_i > Len(mod_files)
    /\ original_scripts' = UiReadPak(Data0(<<"s0">>), "data0.pak").scripts
    /\ modded_scripts' = UiLoadAll(valid_mods).scripts
    /\ stdout' = stdout \o UiLoadAll(valid_mods).out
    /\ pc' = "run_group"
    /\ UNCHANGED <<mod_file_groups, final_file_contents, file_i, mergeVars, uiVars, runVars>>

\* merged.zip is closed; with nothing merged nothing is installed, else it
\* is copied to the source directory under the next name; the finally
\* clause removes the staging and temporary directories
RunMergeInstall ==
    /\ pc = "run_merged"
    /\ UNCHANGED auxVars
    /\ IF merged_count = 0
       THEN /\ ui_log' = Append(ui_log, Event("nothing-to-merge", None, None, 0))
            /\ pc' = "run_none"
            /\ UNCHANGED <<source_dir, next_pak_num>>
       ELSE /\ next_pak_num' = next_data_name(source_dir)
            /\ source_dir' = source_dir \cup {next_data_name(source_dir)}
            /\ ui_log' = Append(ui_log, Event("installed", None, None, next_data_name(source_dir)))
            /\ pc' = "run_done"
    /\ zf' = <<>>
    /\ UNCHANGED <<stdout, mainVars, mergeVars, originals, by_rel, rel_i, merged_count,
                   preferred_source_for_file, mod_i, mod_line_i, dialogs, source_zips,
                   mod_files, valid_mods, fix_i, staging, existing_paks, source_start>>

\* an exception leaves run_merge: the finally clause removes the staging and
\* temporary directories
RunMergeAbort ==
    /\ pc \in UiRunning
    /\ UNCHANGED auxVars
    /\ pc' = "aborted"
    /\ zf' = <<>>
    /\ UNCHANGED <<stdout, mainVars, mergeVars, originals, by_rel, rel_i, merged_count,
                   preferred_source_for_file, mod_i, mod_line_i, dialogs, runVars>>

\* the mods' own lines under modmanager.py
UiChunks == <<"s1", "s2", "s1">>

InitGuiRun ==
    /\ pc = "run_start"
    /\ stdout = <<>>
    /\ MainIdle
    /\ MergeIdle
    /\ UiIdle
    /\ \E others \in SourceDirs, data0 \in {{0}, {}} : source_dir = others \cup data0
    /\ source_start = source_dir
    /\ source_zips = {}
    /\ mod_files \in RunModLists(MaxRunMods, UiChunks)
    /\ valid_mods = <<>>
    /\ fix_i = 0
    /\ staging = <<>>
    /\ existing_paks = {}
    /\ next_pak_num = -1
    /\ ui_log = <<>>
    /\ AuxIdle

----------------------------------------------------------------------------
(* SpecRun: whole runs of either program *)

InitRun == InitConsoleRun \/ InitGuiRun

NextRun ==
    \/ MainStart \/ FixMod \/ MainLoad \/ MainGroup \/ MainLoop \/ ProcessLine \/ ReadInput
    \/ MergeReturn \/ MainStore \/ MainStage \/ MainMakeArchive \/ MainRename \/ MainAbort
    \/ RunMergeStart \/ UiFixMod \/ RunMergeLoad \/ RunMergeGroup \/ RunMergeLoop
    \/ MergeScriptsLine \/ AskUserReturn \/ MergeScriptsReturn \/ RunMergeInstall
    \/ RunMergeAbort

SpecRun == InitRun /\ [][NextRun]_vars

----------------------------------------------------------------------------
(* merge.py main called again in the process that has already run it *)

\* the calls of main after the first
MaxReruns == 1

\* the mods folder a call of main finds: archives on the canonical path, with
\* or without a script the baseline does not have
RerunModFiles(i, c) ==
    { ModFile(ModNames[i], "pak", <<Pak(TRUE, <<Entry("scripts/x.scr", <<c>>, TRUE)>>)>>),
      ModFile(ModNames[i], "pak", <<Pak(TRUE, <<Entry("scripts/x.scr", <<c>>, TRUE),
                                                Entry("scripts/new.scr", <<"b1">>, TRUE)>>)>>) }

RerunModLists(n, chunks) ==
    UNION {{ms \in [1..k -> UNION {RerunModFiles(i, chunks[i]) : i \in 1..k}] :
                \A i \in 1..k : ms[i] \in RerunModFiles(i, chunks[i])} : k \in 0..n}

\* the packages main has announced so far in this process
PackagesAnnounced == {k \in 1..Len(stdout) : stdout[k].ev = "success"}

\* main() is entered again: its locals are new, the mods folder is whatever
\* it holds now, and the module's final_file_contents is the dict the
\* earlier call filled
MainAgain ==
    /\ pc = "main_done"
    /\ Cardinality(PackagesAnnounced) <= MaxReruns
    /\ pc' = "main_start"
    /\ original_scripts' = <<>>
    /\ modded_scripts' = <<>>
    /\ mod_file_groups' = <<>>
    /\ file_i' = 0
    /\ mod_files' \in RerunModLists(MaxRunMods, ConsoleChunks)
    /\ valid_mods' = <<>>
    /\ fix_i' = 0
    /\ existing_paks' = {}
    /\ next_pak_num' = -1
    /\ source_start' = source_dir
    /\ UNCHANGED <<stdout, final_file_contents, mergeVars, uiVars, source_dir, source_zips,
                   staging, ui_log, auxVars>>

InitRerun ==
    /\ pc = "main_start"
    /\ stdout = <<>>
    /\ MainIdle
    /\ MergeIdle
    /\ UiIdle
    /\ source_dir = {0}
    /\ source_start = source_dir
    /\ source_zips = {}
    /\ mod_files \in RerunModLists(MaxRunMods, ConsoleChunks)
    /\ valid_mods = <<>>
    /\ fix_i = 0
    /\ staging = <<>>
    /\ existing_paks = {}
    /\ next_pak_num = -1
    /\ ui_log = <<>>
    /\ AuxIdle

NextRerun ==
    \/ MainStart \/ FixMod \/ MainLoad \/ MainGroup \/ MainLoop \/ ProcessLine \/ ReadInput
    \/ MergeReturn \/ MainStore \/ MainStage \/ MainMakeArchive \/ MainRename \/ MainAbort
    \/ MainAgain

SpecRerun == InitRerun /\ [][NextRerun]_vars


----------------------------------------------------------------------------
(* modmanager.py read_scripts_from_single_pak on one package, entry by entry *)

\* the bytes of one script, in chunks: up to this many
MaxEntryBytes == 2

\* a line of text in UTF-8, a comment in UTF-8, a sequence that is not UTF-8
ByteChunks == {"s1", "#", InvalidBytes}

\* the package at hand: two scripts of any bytes
DecodePaks ==
    {<<Entry("scripts/x.scr", b1, TRUE), Entry("scripts/y.scr", b2, TRUE)>> :
        b1, b2 \in SeqsUpTo(ByteChunks, MaxEntryBytes)}

\* one pass of for entry in z.namelist(): the entry is read, decoded and
\* appended to scripts
LoadEntry ==
    /\ pc = "load"
    /\ scan_i <= Len(game_entries)
    /\ modded_scripts' = UiReadEntries(SubSeq(game_entries, 1, scan_i), "A.pak",
                                       [raised |-> FALSE, scripts |-> <<>>]).scripts
    /\ scan_i' = scan_i + 1
    /\ UNCHANGED <<pc, stdout, original_scripts, mod_file_groups, final_file_contents, file_i,
                   mergeVars, uiVars, runVars, game_entries, game_structure, ui_q,
                   last_result, workers, widgets>>

\* return scripts
LoadReturn ==
    /\ pc = "load"
    /\ scan_i > Len(game_entries)
    /\ pc' = "loaded"
    /\ UNCHANGED <<stdout, mainVars, mergeVars, uiVars, runVars, auxVars>>

InitDecode ==
    /\ pc = "load"
    /\ stdout = <<>>
    /\ MainIdle
    /\ MergeIdle
    /\ UiIdle
    /\ RunIdle
    /\ game_entries \in DecodePaks
    /\ game_structure = <<>>
    /\ scan_i = 1
    /\ ui_q = <<>>
    /\ last_result = None
    /\ workers = <<>>
    /\ widgets = "normal"

NextDecode == LoadEntry \/ LoadReturn

SpecDecode == InitDecode /\ [][NextDecode]_vars


----------------------------------------------------------------------------
(* generate_merged_file_content called a second time, the mods in another order *)

\* the lists that hold the elements of ms in some order
Reorderings(ms) ==
    {[i \in 1..Len(ms) |-> ms[f[i]]] : f \in Permutations(1..Len(ms))}

\* the text returned is kept as main keeps it, and the same baseline is
\* merged with the same mods in any order
MergeReordered ==
    /\ pc = "returned"
    /\ final_file_contents = <<>>
    /\ final_file_contents' = DictSet(final_file_contents, original.full_path_in_pak,
                                      merged_content)
    /\ \E ms \in Reorderings(mods) : CallMerge(original, ms)
    /\ pc' = "merge_loop"
    /\ UNCHANGED <<stdout, original_scripts, modded_scripts, mod_file_groups, file_i,
                   uiVars, runVars, auxVars>>

\* the inputs of SpecMerge in which no mod's line differs from another mod's
\* differing line for the same key
InitOrder ==
    /\ InitMerge
    /\ \A k \in DOMAIN original_map :
            \A m, n \in 1..Len(mod_maps) :
                (/\ k \in DOMAIN mod_maps[m].map
                 /\ k \in DOMAIN mod_maps[n].map
                 /\ mod_maps[m].map[k] # original_map[k]
                 /\ mod_maps[n].map[k] # original_map[k]) =>
                    mod_maps[m].map[k] = mod_maps[n].map[k]

NextOrder == ProcessLine \/ MergeReturn \/ MergeReordered

SpecOrder == InitOrder /\ [][NextOrder]_vars


----------------------------------------------------------------------------
(* modmanager.py: the Run MERGE button, its worker threads and UiSync *)

\* the worker threads the clicks on Run MERGE start
MaxWorkers == 2

\* the calls of UiSync.call that all runs of run_merge make together
MaxCalls == 3

\* what the called function returns: the answer given in the dialog
UiAnswers == {"yes", "no"}

\* ev.set() as the last statement of the try block, after the assignment
event_set_in_try(outcome) == outcome # None

\* ev.set() comes after the try statement, whatever the function did
event_set(outcome) == TRUE

\* threading.Thread(target=worker): run_merge is about to run
NewWorker == [pc |-> "running", calls |-> 0, ev |-> FALSE, own |-> None, ret |-> None]

\* the threads that are inside run_merge
InRunMerge == {w \in DOMAIN workers : workers[w].pc \in {"running", "waiting"}}

\* App.on_run_merge, the command of the button, which is never disabled:
\* with a valid game folder and a queue of mods the three widgets are
\* disabled and a worker thread is started
OnRunMerge ==
    /\ pc = "mainloop"
    /\ Len(workers) < MaxWorkers
    /\ \E ready \in BOOLEAN :
        IF ready
        THEN /\ widgets' = "disabled"
             /\ workers' = Append(workers, NewWorker)
        ELSE UNCHANGED <<widgets, workers>>
    /\ UNCHANGED <<pc, stdout, mainVars, mergeVars, uiVars, runVars, game_entries,
                   game_structure, scan_i, ui_q, last_result>>

\* UiSync.call up to ev.wait(): the request is queued
UiCall(w) ==
    /\ pc = "mainloop"
    /\ workers[w].pc = "running"
    /\ Cardinality(UNION {{<<v, k>> : k \in 1..workers[v].calls} : v \in DOMAIN workers})
            < MaxCalls
    /\ ui_q' = Append(ui_q, w)
    /\ workers' = [workers EXCEPT ![w].pc = "waiting", ![w].calls = @ + 1,
                                  ![w].ev = FALSE]
    /\ UNCHANGED <<pc, stdout, mainVars, mergeVars, uiVars, runVars, game_entries,
                   game_structure, scan_i, last_result, widgets>>

\* one pass of the loop of UiSync._poll: a request is taken from the queue,
\* the function runs on the UI thread and returns an answer or raises, and
\* the event is set
Poll ==
    /\ pc = "mainloop"
    /\ ui_q # <<>>
    /\ \E outcome \in UiAnswers \cup {None} :
        /\ last_result' = outcome
        /\ workers' = [workers EXCEPT ![Head(ui_q)].ev = event_set(outcome),
                                      ![Head(ui_q)].own = outcome]
        /\ stdout' = IF outcome = None
                     THEN Append(stdout, Event("UiSync error", None, None, 0))
                     ELSE stdout
    /\ ui_q' = Tail(ui_q)
    /\ UNCHANGED <<pc, mainVars, mergeVars, uiVars, runVars, game_entries,
                   game_structure, scan_i, widgets>>

\* ev.wait() has returned: return getattr(self, "_last_result", None)
CallReturn(w) ==
    /\ pc = "mainloop"
    /\ workers[w].pc = "waiting"
    /\ workers[w].ev
    /\ workers' = [workers EXCEPT ![w].pc = "running", ![w].ret = last_result]
    /\ UNCHANGED <<pc, stdout, mainVars, mergeVars, uiVars, runVars, game_entries,
                   game_structure, scan_i, ui_q, last_result, widgets>>

\* run_merge returns or raises; the finally clause schedules reenable
WorkerExit(w) ==
    /\ pc = "mainloop"
    /\ workers[w].pc = "running"
    /\ workers' = [workers EXCEPT ![w].pc = "finishing"]
    /\ UNCHANGED <<pc, stdout, mainVars, mergeVars, uiVars, runVars, game_entries,
                   game_structure, scan_i, ui_q, last_result, widgets>>

\* reenable() on the UI thread: the three widgets are set to normal
Reenable(w) ==
    /\ pc = "mainloop"
    /\ workers[w].pc = "finishing"
    /\ workers' = [workers EXCEPT ![w].pc = "done"]
    /\ widgets' = "normal"
    /\ UNCHANGED <<pc, stdout, mainVars, mergeVars, uiVars, runVars, game_entries,
                   game_structure, scan_i, ui_q, last_result>>

InitUi ==
    /\ pc = "mainloop"
    /\ stdout = <<>>
    /\ MainIdle
    /\ MergeIdle
    /\ UiIdle
    /\ RunIdle
    /\ AuxIdle

NextUi ==
    \/ OnRunMerge
    \/ Poll
    \/ \E w \in DOMAIN workers : UiCall(w)
    \/ \E w \in DOMAIN workers : CallReturn(w)
    \/ \E w \in DOMAIN workers : WorkerExit(w)
    \/ \E w \in DOMAIN workers : Reenable(w)

SpecUi == InitUi /\ [][NextUi]_vars

\* root.after(10, self._poll) keeps _poll running on the UI thread, and a
\* thread whose event is set is scheduled again
SpecUiLive ==
    /\ SpecUi
    /\ WF_vars(Poll)
    /\ \A w \in 1..MaxWorkers : WF_vars(w \in DOMAIN workers /\ CallReturn(w))


----------------------------------------------------------------------------
(* What the claims about generate_merged_file_content speak of *)

\* the Key of the i-th baseline line
KeyAt(i) == try_parse_key(original_lines[i])

\* the baseline positions whose line has been emitted
Emitted == 1..Len(final_content)

\* the mods whose representative line for key differs from the baseline's
Differing(key) ==
    {m \in 1..Len(mod_maps) :
        key \in DOMAIN mod_maps[m].map /\ mod_maps[m].map[key] # original_map[key]}

DifferingValues(key) == {mod_maps[m].map[key] : m \in Differing(key)}

\* the mods that carry the baseline's own representative line for key
Identical(key) ==
    {m \in 1..Len(mod_maps) :
        key \in DOMAIN mod_maps[m].map /\ mod_maps[m].map[key] = original_map[key]}

\* the conflict prompts printed for key while merging the file at hand
PromptsFor(key) ==
    {j \in 1..Len(stdout) :
        /\ stdout[j].ev = "CHOICE REQUIRED"
        /\ stdout[j].path = original.full_path_in_pak
        /\ stdout[j].key = key}

\* the loop stands at a keyed baseline line that is not memoized
AtFreshKey ==
    /\ pc = "merge_loop"
    /\ line_i <= Len(original_lines)
    /\ KeyAt(line_i) # None
    /\ KeyAt(line_i) \notin DOMAIN resolutions

\* the mod whose source_pak is src
ModOf(src) == CHOOSE m \in 1..Len(mod_maps) : mod_maps[m].source_pak = src

\* the baseline Keys with two or more distinct differing values
ConflictKeys == {k \in DOMAIN original_map : Cardinality(DifferingValues(k)) >= 2}

\* C1: a Key that exactly one mod changes (the others lack it or carry the
\* baseline's line) is emitted as that mod's line at every baseline position
\* carrying it, and no conflict prompt is printed for it.
C1_SingleChangeEmitted ==
    \A key \in DOMAIN original_map :
        Cardinality(Differing(key)) = 1 =>
            /\ \A i \in Emitted :
                KeyAt(i) = key =>
                    \E m \in Differing(key) : final_content[i] = mod_maps[m].map[key]
            /\ PromptsFor(key) = {}

\* a finished merge in which one mod changed a Key that the baseline carries at
\* two positions while another mod carries the baseline's line
C1_Witness ==
    /\ pc = "returned"
    /\ \E key \in DOMAIN original_map :
        /\ Cardinality(Differing(key)) = 1
        /\ Identical(key) # {}
        /\ Cardinality({i \in Emitted : KeyAt(i) = key}) >= 2

\* C2: a Key no mod changes is emitted as the baseline's own line at every
\* position carrying it, whatever the preference and the other resolutions.
C2_UnchangedKeyKept ==
    \A key \in DOMAIN original_map :
        Differing(key) = {} =>
            \A i \in Emitted : KeyAt(i) = key => final_content[i] = original_lines[i]

\* an unchanged Key, carried identically by a mod, emitted after a preference was set
C2_Witness ==
    /\ preferred_mod_source # None
    /\ Len(final_content) >= 2
    /\ \E key \in DOMAIN original_map :
        /\ Differing(key) = {}
        /\ Identical(key) # {}
        /\ KeyAt(Len(final_content)) = key

\* the loop stands at a fresh Key that two or more mods change to one same text
AtConvergingKey ==
    /\ AtFreshKey
    /\ Cardinality(Differing(KeyAt(line_i))) >= 2
    /\ Cardinality(DifferingValues(KeyAt(line_i))) = 1

\* C3: a Key that two or more mods change to the same text is emitted as that
\* text at every position, without a prompt; the step that resolves it leaves
\* the preference and the auto-resolved counter as they were.
C3_ConvergingNoConflict ==
    /\ [](\A key \in DOMAIN original_map :
            (Cardinality(Differing(key)) >= 2 /\ Cardinality(DifferingValues(key)) = 1) =>
                /\ \A i \in Emitted : KeyAt(i) = key => final_content[i] \in DifferingValues(key)
                /\ PromptsFor(key) = {})
    /\ [][AtConvergingKey =>
            /\ final_content' = Append(final_content,
                    CHOOSE v \in DifferingValues(KeyAt(line_i)) : TRUE)
            /\ preferred_mod_source' = preferred_mod_source
            /\ auto_resolved_count' = auto_resolved_count
            /\ stdout' = stdout
            /\ pc' = "merge_loop"]_vars

\* a converging Key was just resolved while a preference was set
C3_Witness ==
    /\ preferred_mod_source # None
    /\ Len(final_content) >= 2
    /\ LET key == KeyAt(Len(final_content))
       IN  /\ key # None
           /\ Cardinality(Differing(key)) >= 2
           /\ Cardinality(DifferingValues(key)) = 1
           /\ \A i \in 1..(Len(final_content) - 1) : KeyAt(i) # key

\* C4: a Key with two or more distinct differing values is decided once (one
\* prompt or one auto-resolution) and every position carrying it, also one
\* whose baseline text differs from the first, emits the decided value.
C4_ConflictDecidedOnce ==
    /\ \A key \in ConflictKeys :
        /\ Cardinality(PromptsFor(key)) <= 1
        /\ \A i \in Emitted : KeyAt(i) = key =>
              key \in DOMAIN resolutions /\ final_content[i] = resolutions[key]
    /\ Cardinality(UNION {PromptsFor(key) : key \in ConflictKeys}) + auto_resolved_count
         = Cardinality({key \in ConflictKeys :
                           \/ \E i \in Emitted : KeyAt(i) = key
                           \/ pc = "input" /\ KeyAt(line_i) = key})

\* a conflicting Key emitted at two positions whose baseline texts differ
C4_Witness ==
    /\ pc = "returned"
    /\ \E key \in ConflictKeys :
        \E i, j \in Emitted :
            /\ i < j
            /\ KeyAt(i) = key
            /\ KeyAt(j) = key
            /\ original_lines[i] # original_lines[j]

\* the loop stands at a fresh conflicting Key while a preference is set
AtLaterConflict ==
    /\ AtFreshKey
    /\ KeyAt(line_i) \in ConflictKeys
    /\ preferred_mod_source # None

\* the preferred mod's own differing line for key, if it has one
PreferredChanges(key) == ModOf(preferred_mod_source) \in Differing(key)

\* the first differing line for key in mods-list order
FirstDiffering(key) == mod_maps[Min(Differing(key))].map[key]

\* C5 as stated: once a preference is set, every later conflict is resolved to
\* the preferred source's own proposal.
C5_AlwaysPreferredProposal ==
    [][AtLaterConflict =>
        /\ PreferredChanges(KeyAt(line_i))
        /\ final_content' = Append(final_content,
                mod_maps[ModOf(preferred_mod_source)].map[KeyAt(line_i)])]_vars

\* C5 amended: once a preference is set, a later conflict is resolved without
\* a prompt to the preferred source's own line when that line differs from the
\* baseline's, and else to the first differing line in mods-list order.
C5_PreferredElseFirst ==
    [][AtLaterConflict =>
        /\ pc' = "merge_loop"
        /\ stdout' = stdout
        /\ final_content' = Append(final_content,
                IF PreferredChanges(KeyAt(line_i))
                THEN mod_maps[ModOf(preferred_mod_source)].map[KeyAt(line_i)]
                ELSE FirstDiffering(KeyAt(line_i)))]_vars

\* a later conflict auto-resolved to the preferred source's line, which was not
\* the first differing line
C5_Witness ==
    /\ auto_resolved_count >= 1
    /\ Len(final_content) >= 2
    /\ LET key == KeyAt(Len(final_content))
       IN  /\ key \in ConflictKeys
           /\ PreferredChanges(key)
           /\ final_content[Len(final_content)] =
                mod_maps[ModOf(preferred_mod_source)].map[key]
           /\ final_content[Len(final_content)] # FirstDiffering(key)

\* the mods that propose value for key, in mods-list order
ProposedBy(key, value) == {m \in Differing(key) : mod_maps[m].map[key] = value}

\* the distinct value whose source list holds the preferred source, else the
\* distinct value met first in mods-list order
StickyValue(key) ==
    LET mine == {v \in DifferingValues(key) :
                    \E m \in ProposedBy(key, v) : mod_maps[m].source_pak = preferred_mod_source}
    IN  IF mine # {}
        THEN CHOOSE v \in mine : \A w \in mine : Min(ProposedBy(key, v)) <= Min(ProposedBy(key, w))
        ELSE CHOOSE v \in DifferingValues(key) :
                \A w \in DifferingValues(key) : Min(ProposedBy(key, v)) <= Min(ProposedBy(key, w))

\* C17: once a preference is set in a file, a later true conflict prints no
\* prompt and asks nothing; it is resolved, memoized and counted as
\* auto-resolved, to the distinct value whose sources hold the preferred
\* source, or, when there is none, to the distinct value met first in
\* mods-list order.
C17_StickyAutoResolves ==
    [][AtLaterConflict =>
        /\ pc' = "merge_loop"
        /\ stdout' = stdout
        /\ preferred_mod_source' = preferred_mod_source
        /\ auto_resolved_count' = auto_resolved_count + 1
        /\ final_content' = Append(final_content, StickyValue(KeyAt(line_i)))
        /\ KeyAt(line_i) \in DOMAIN resolutions'
        /\ resolutions'[KeyAt(line_i)] = StickyValue(KeyAt(line_i))]_vars

\* a later conflict was auto-resolved for which the preferred source proposed
\* nothing: the value emitted is the one met first, proposed by another mod
C17_Witness ==
    /\ auto_resolved_count >= 1
    /\ Len(final_content) >= 2
    /\ LET key == KeyAt(Len(final_content))
       IN  /\ key \in ConflictKeys
           /\ \A i \in 1..(Len(final_content) - 1) : KeyAt(i) # key
           /\ ~PreferredChanges(key)
           /\ final_content[Len(final_content)] = FirstDiffering(key)
           /\ PromptsFor(key) = {}

\* C19: the output has as many lines as the baseline, and a baseline line
\* without a Key is emitted unchanged at its own index, whatever the mods
\* and the answers.
C19_BackboneKept ==
    /\ Len(final_content) <= Len(original_lines)
    /\ \A i \in Emitted : KeyAt(i) = None => final_content[i] = original_lines[i]
    /\ pc \in {"merge_loop", "input"} => Len(final_content) = line_i - 1
    /\ pc = "returned" =>
        /\ Len(SplitLF(merged_content)) = Len(SplitLF(ReplaceCRLF(original.content)))
        /\ SplitLF(merged_content) = final_content

\* a merge has returned whose baseline holds a line without a Key next to a
\* Key that was resolved at a prompt
C19_Witness ==
    /\ pc = "returned"
    /\ \E i, j \in Emitted :
        /\ KeyAt(i) = None
        /\ original_lines[i] # <<>>
        /\ KeyAt(j) \in ConflictKeys
        /\ PromptsFor(KeyAt(j)) # {}
        /\ final_content[j] # original_lines[j]

\* the first line of a mod's text that carries key, if any
RepresentativeLines(content, key) ==
    LET ls == SplitLF(ReplaceCRLF(content))
        at == {n \in 1..Len(ls) : try_parse_key(ls[n]) = key}
    IN  IF at = {} THEN {} ELSE {ls[Min(at)]}

\* C20: the output line at an index is the baseline line at that index or the
\* representative line of some mod for the Key of that baseline line; so no
\* line with a Key the baseline lacks and no unkeyed line of a mod is emitted.
C20_OnlyBaselineOrSameKey ==
    \A i \in Emitted :
        \/ final_content[i] = original_lines[i]
        \/ /\ KeyAt(i) # None
           /\ \E m \in 1..Len(mods) :
                final_content[i] \in RepresentativeLines(mods[m].content, KeyAt(i))
           /\ try_parse_key(final_content[i]) = KeyAt(i)

\* a merge has returned that took a mod's line for a baseline Key while that
\* mod also holds a second line for the Key and a Key the baseline lacks
C20_Witness ==
    /\ pc = "returned"
    /\ \E i \in Emitted : \E m \in 1..Len(mods) :
        /\ final_content[i] # original_lines[i]
        /\ final_content[i] \in RepresentativeLines(mods[m].content, KeyAt(i))
        /\ \E n \in 1..Len(mods) :
            Cardinality({l \in {SplitContent(mods[n].content)[k] :
                                    k \in 1..Len(SplitContent(mods[n].content))} :
                            try_parse_key(l) = KeyAt(i)}) >= 2
        /\ \E k \in DOMAIN mod_maps[m].map : k \notin DOMAIN original_map

----------------------------------------------------------------------------
(* Claims about merging against no mod at all (SpecIdempotence) *)

\* no CR stands right before a LF
HasNoCRLF(text) == \A i \in 1..(Len(text) - 1) : ~(text[i] = CR /\ text[i + 1] = LF)

\* C9 as stated: whatever the baseline text, the merge against an empty list
\* of mods returns that text unchanged and prints no prompt.
C9_AnyTextUnchanged ==
    /\ stdout = <<>>
    /\ pc = "returned" => merged_content = original.content

\* C9 amended: a baseline text without a CR LF pair is returned unchanged by
\* the merge against an empty list of mods, and no prompt is printed.
C9_TextWithoutCRLFUnchanged ==
    /\ stdout = <<>>
    /\ (pc = "returned" /\ HasNoCRLF(original.content)) =>
            merged_content = original.content

\* a returned text of several lines, one keyed, with a CR of its own and a
\* final line break
C9_Witness ==
    /\ pc = "returned"
    /\ mods = <<>>
    /\ HasNoCRLF(original.content)
    /\ \E i \in 1..Len(original.content) : original.content[i] = CR
    /\ \E i \in 1..Len(original_lines) : try_parse_key(original_lines[i]) # None
    /\ original.content[Len(original.content)] = LF
    /\ merged_content = original.content

----------------------------------------------------------------------------
(* Claims about main (SpecMain) *)

\* a call of generate_merged_file_content is under way or has just returned
InMerge == pc \in {"merge_loop", "input", "returned"}

\* the emitted baseline positions of the file at hand that carry a conflicting Key
EmittedConflicts == {i \in Emitted : KeyAt(i) \in ConflictKeys}

\* C6: each file's merge starts with no preference and a zero auto-resolved
\* counter, and the first conflict met in a file is prompted for, whatever
\* was chosen in the files merged before it.
C6_PreferenceEndsWithFile ==
    /\ (pc = "merge_loop" /\ line_i = 1) =>
            preferred_mod_source = None /\ auto_resolved_count = 0
    /\ (InMerge /\ EmittedConflicts # {}) =>
            PromptsFor(KeyAt(Min(EmittedConflicts))) # {}

\* the second file's first conflict has been prompted for, after the first
\* file's merge auto-resolved a conflict under a preference
C6_Witness ==
    /\ InMerge
    /\ file_i = 2
    /\ EmittedConflicts # {}
    /\ \E p \in PromptsFor(KeyAt(Min(EmittedConflicts))) :
        \E j \in 1..(p - 1) : stdout[j].ev = "auto-resolved"

\* the scripts of the accepted mods that carry path
TouchedBy(path) ==
    {i \in 1..Len(modded_scripts) : modded_scripts[i].full_path_in_pak = path}

\* C7: a path touched by exactly one accepted mod gets that mod's content,
\* verbatim, as its output, whether or not the baseline has the path.
C7_SingleModVerbatim ==
    \A path \in MainPaths :
        Cardinality(TouchedBy(path)) = 1 =>
            /\ pc = "main_merged" => path \in DOMAIN final_file_contents
            /\ path \in DOMAIN final_file_contents =>
                \A i \in TouchedBy(path) :
                    final_file_contents[path] = modded_scripts[i].content

\* the run has ended with two paths each touched by one mod, one that the
\* baseline has and one that it lacks
C7_Witness ==
    /\ pc = "main_merged"
    /\ \E p, q \in MainPaths :
        /\ Cardinality(TouchedBy(p)) = 1
        /\ Cardinality(TouchedBy(q)) = 1
        /\ OriginalsAt(original_scripts, p) # {}
        /\ OriginalsAt(original_scripts, q) = {}
        /\ {p, q} \subseteq DOMAIN final_file_contents

----------------------------------------------------------------------------
(* Claims about the GUI's run_merge and merge_scripts (SpecGui) *)

\* the mods' scripts that carry path
UiTouchedBy(path) ==
    {i \in 1..Len(modded_scripts) : modded_scripts[i].rel_path = path}

\* the entries of merged.zip written for path
ZfAt(path) == {j \in 1..Len(zf) : zf[j].rel_path = path}

\* C8: in run_merge, a path touched by exactly one mod is written to the
\* merged package with that mod's content, verbatim, also when data0.pak
\* has the path.
C8_UiSingleModVerbatim ==
    \A path \in UiPaths :
        Cardinality(UiTouchedBy(path)) = 1 =>
            /\ pc = "run_merged" => ZfAt(path) # {}
            /\ \A j \in ZfAt(path) : \A i \in UiTouchedBy(path) :
                    zf[j].content = modded_scripts[i].content

\* the lines of a script that carry key
LocalLinesFor(script, key) ==
    {SplitContent(script.content)[n] : n \in
        {n \in 1..Len(SplitContent(script.content)) :
            try_parse_key_local(SplitContent(script.content)[n]) = key}}

\* C10: in merge_scripts, when of two mods one changes a baseline Key and the
\* other carries the baseline's line for it, the written content holds the
\* changing mod's line for the Key and ask_user was not called for it,
\* whichever of the two comes first.
C10_UiUnchangedModNoCandidate ==
    \A g \in 1..Len(by_rel) :
        \A j \in ZfAt(by_rel[g].path) :
            (by_rel[g].path \in DOMAIN originals /\ Len(by_rel[g].scripts) = 2) =>
                LET base == LocalLineMap(SplitContent(originals[by_rel[g].path].content))
                    out == LocalLineMap(SplitContent(zf[j].content))
                IN  \A key \in MapKeys(base) : \A a, b \in {1, 2} :
                        ( /\ a # b
                          /\ LocalLinesFor(by_rel[g].scripts[b], key) = {MapGet(base, key)}
                          /\ Cardinality(LocalLinesFor(by_rel[g].scripts[a], key)) = 1
                          /\ LocalLinesFor(by_rel[g].scripts[a], key) # {MapGet(base, key)} ) =>
                            /\ key \in MapKeys(out)
                            /\ {MapGet(out, key)} = LocalLinesFor(by_rel[g].scripts[a], key)
                            /\ \A d \in 1..Len(dialogs) :
                                ~(dialogs[d].path = by_rel[g].path /\ dialogs[d].key = key)

\* C18: in merge_scripts, once a choice was made with "apply this choice to
\* the rest of this file", ask_user is not called again while that file is
\* merged, whichever mod proposes the later conflicting lines.
C18_UiStickyNeverAsksAgain ==
    [][(pc = "scripts_loop" /\ preferred_source_for_file # None) => dialogs' = dialogs]_vars

----------------------------------------------------------------------------
(* What the claims about whole runs speak of *)

\* the scripts of a mod archive, over all its packages
RECURSIVE EntriesOf(_)
EntriesOf(paks) == IF paks = <<>> THEN <<>> ELSE Head(paks).entries \o EntriesOf(Tail(paks))

\* every package and every entry of the archive can be read
Readable(mod_file) ==
    /\ \A k \in 1..Len(mod_file.paks) : mod_file.paks[k].ok
    /\ \A k \in 1..Len(EntriesOf(mod_file.paks)) : EntriesOf(mod_file.paks)[k].ok

\* the baseline's scripts, and the canonical path of a basename
BaselinePaths == {"scripts/x.scr"}

CanonicalOf(base) == CHOOSE p \in BaselinePaths : Basename(p) = base

\* the entries whose basename the baseline does not hold
UnknownEntries(mod_file) ==
    {k \in 1..Len(EntriesOf(mod_file.paks)) :
        \A p \in BaselinePaths : Basename(p) # Basename(EntriesOf(mod_file.paks)[k].path)}

\* the entries with a known basename that are not at its canonical path
MisplacedEntries(mod_file) ==
    {k \in 1..Len(EntriesOf(mod_file.paks)) \ UnknownEntries(mod_file) :
        Lower(EntriesOf(mod_file.paks)[k].path)
            # Lower(CanonicalOf(Basename(EntriesOf(mod_file.paks)[k].path)))}

\* m is a corrected copy of mod_file: its scripts, each at its canonical path
IsCorrectedCopy(m, mod_file) ==
    /\ m # mod_file
    /\ Readable(m)
    /\ Len(EntriesOf(m.paks)) = Len(EntriesOf(mod_file.paks))
    /\ \A k \in 1..Len(EntriesOf(m.paks)) :
        /\ EntriesOf(m.paks)[k].content = EntriesOf(mod_file.paks)[k].content
        /\ EntriesOf(m.paks)[k].path = CanonicalOf(Basename(EntriesOf(mod_file.paks)[k].path))

\* the mods the normalizer's loop has dealt with
Normalized == 1..Min({fix_i - 1, Len(mod_files)})

\* the places of the valid list that hold the i-th mod or a copy made of it
ValidFrom(i) ==
    {j \in 1..Len(valid_mods) : Stem(valid_mods[j].name) = Stem(mod_files[i].name)
                                \/ valid_mods[j].name = FixedZipName(Stem(mod_files[i].name))}

\* C11: in merge.py fix_mod_structures, a readable mod without unknown files
\* that holds a script off the canonical path of its basename is returned as
\* a corrected copy with its entries at the canonical paths, in place of the
\* original archive; a mod whose script paths all match is returned as the
\* original archive.
C11_MisplacedModCorrected ==
    pc = "fix_loop" =>
        \A i \in Normalized :
            (Readable(mod_files[i]) /\ UnknownEntries(mod_files[i]) = {}) =>
                /\ Cardinality(ValidFrom(i)) = 1
                /\ \A j \in ValidFrom(i) :
                    IF MisplacedEntries(mod_files[i]) # {}
                    THEN IsCorrectedCopy(valid_mods[j], mod_files[i])
                    ELSE valid_mods[j] = mod_files[i]


\* the keep/exclude decisions asked for a mod, by either normalizer
DecisionsFor(mod_name) ==
    {k \in 1..Len(stdout \o ui_log) :
        /\ (stdout \o ui_log)[k].ev \in {"unknown-files", "askyesno"}
        /\ (stdout \o ui_log)[k].path = mod_name}

\* the answers that mean keep: 1 at the console, Yes in the message box
KeepAnswers == {"1", "yes"}

RunLog == stdout \o ui_log

\* C13: when data0.pak is missing from the source directory the run ends at
\* once: no mod is normalized, no keep/exclude or conflict decision is asked
\* for, nothing is staged and no package is added to the source directory.
C13_MissingBaselineEndsRun ==
    0 \notin source_start =>
        /\ pc \in {"main_start", "exited", "run_start", "run_none"}
        /\ fix_i = 0
        /\ valid_mods = <<>>
        /\ modded_scripts = <<>>
        /\ \A k \in 1..Len(RunLog) : RunLog[k].ev \in {"data0-not-found", "showerror"}
        /\ dialogs = <<>>
        /\ staging = <<>>
        /\ zf = <<>>
        /\ final_file_contents = <<>>
        /\ source_zips = {}
        /\ source_dir = source_start

\* a run over mods that would ask for a decision has ended for want of data0.pak
C13_Witness ==
    /\ 0 \notin source_start
    /\ pc \in {"exited", "run_none"}
    /\ Len(mod_files) = MaxRunMods
    /\ \E i \in 1..Len(mod_files) : UnknownEntries(mod_files[i]) # {}
    /\ Len(RunLog) = 1


\* the errors merge.py has printed that name the i-th mod: by its stem in
\* fix_mod_structures, by its file name in load_all_scripts_from_mods_folder
ErrorsNaming(i) ==
    {k \in 1..Len(stdout) :
        \/ stdout[k].ev = "could-not-process" /\ stdout[k].path = Stem(mod_files[i].name)
        \/ stdout[k].ev = "could-not-read" /\ stdout[k].path = mod_files[i].name}

\* the loaded scripts that come from the i-th mod
ScriptsFrom(i) ==
    {k \in 1..Len(modded_scripts) : modded_scripts[k].source_pak = mod_files[i].name}

\* valid_mods without the archives of the i-th mod
RECURSIVE ValidWithout(_, _)
ValidWithout(valid, name) ==
    IF valid = <<>> THEN <<>>
    ELSE IF Head(valid).name = name THEN ValidWithout(Tail(valid), name)
    ELSE <<Head(valid)>> \o ValidWithout(Tail(valid), name)

LowestUnusedFrom(floor, nums) ==
    Min({n \in floor..(floor + Cardinality(nums)) : n \notin nums})

NewPackages == source_dir \ source_start

\* the paths the run has grouped the mods' scripts under
GroupedPaths ==
    {mod_file_groups[k].path : k \in 1..Len(mod_file_groups)}
        \cup {by_rel[k].path : k \in 1..Len(by_rel)}

\* the paths whose merged text is in scratch storage: merge.py's
\* staging_area, modmanager.py's merged.zip
ScratchPaths == DOMAIN staging \cup {zf[k].rel_path : k \in 1..Len(zf)}

\* merge.py: the loop over the groups is over, every grouped path has its
\* merged text, and staging_area holds every text
ConsoleAllWritten ==
    /\ file_i > Len(mod_file_groups)
    /\ GroupedPaths = DOMAIN final_file_contents
    /\ staging = final_file_contents

\* modmanager.py: the loop over the groups is over and merged.zip holds a
\* text for every grouped path
UiAllWritten ==
    /\ rel_i > Len(by_rel)
    /\ merged_count = Len(by_rel)
    /\ GroupedPaths \subseteq ScratchPaths

AllWrittenToScratch == ConsoleAllWritten \/ UiAllWritten

\* C16: at every moment of a run of either program, a new data<N>.pak is in
\* the source directory only if every grouped path had been merged and
\* written to scratch storage when it appeared, and an archive that is not
\* yet named data<N>.pak only while that holds; hence a run that aborts
\* earlier, between two files or inside a merge, leaves the source
\* directory as it found it.
C16_PackageOnlyAfterAllWritten ==
    /\ [](NewPackages # {} => pc \in {"main_done", "run_done"})
    /\ [](source_zips # {} => AllWrittenToScratch)
    /\ [][NewPackages' # NewPackages => AllWrittenToScratch]_vars

\* a run has been aborted inside the merge of a file, at a prompt, and has
\* left nothing in the source directory
C16_Witness ==
    /\ pc = "aborted"
    /\ GroupedPaths # {}
    /\ \/ line_i > 0 /\ choice = -1 /\ \E k \in 1..Len(stdout) : stdout[k].ev = "CHOICE REQUIRED"
       \/ dialogs # <<>>
    /\ NewPackages = {}
    /\ source_zips = {}


\* the entries whose path is a baseline script's path up to letter case
MatchingUpToCase(mod_file) ==
    {k \in 1..Len(EntriesOf(mod_file.paks)) :
        \E p \in BaselinePaths : Lower(EntriesOf(mod_file.paks)[k].path) = Lower(p)}

\* what the reader of fix_mod_structures makes of a mod with one package
ClassifiedBy(mod_file) ==
    read_scripts_from_single_pak_for_fixing(
        mod_file.paks[1], FALSE, get_game_file_structure(Data0(<<"a0">>).entries), <<>>)

\* C21: in merge.py a mod script whose path is a baseline script's canonical
\* path up to letter case, in the directory names or in the basename, counts
\* as matching: it is not put on the unknown-files list, the mod is not
\* marked as needing correction, and no decision is asked for.
C21_CaseVariantMatches ==
    pc = "fix_loop" =>
        \A i \in Normalized :
            (/\ Readable(mod_files[i])
             /\ Len(mod_files[i].paks) = 1
             /\ MatchingUpToCase(mod_files[i]) = 1..Len(EntriesOf(mod_files[i].paks))) =>
                /\ ClassifiedBy(mod_files[i]).unknown_files = <<>>
                /\ ~ClassifiedBy(mod_files[i]).needs_fixing_flag
                /\ DecisionsFor(Stem(mod_files[i].name)) = {}


\* C22: in merge.py main a file is one file whatever the letter case of its
\* path: scripts of accepted mods whose paths differ only in case are in one
\* group, and the output holds one entry for them.
C22_GroupingIgnoresCase ==
    /\ \A k, l \in 1..Len(mod_file_groups) :
            Lower(mod_file_groups[k].path) = Lower(mod_file_groups[l].path) => k = l
    /\ \A p, q \in DOMAIN final_file_contents : Lower(p) = Lower(q) => p = q


----------------------------------------------------------------------------
(* Claims about get_game_file_structure (SpecStructure) *)

\* the baseline entries the scan has passed
Scanned == 1..(scan_i - 1)

\* the scanned entries with the basename of entry j, whatever the case
SameBasename(j) ==
    {k \in Scanned : Lower(Basename(game_entries[k].path)) = Lower(Basename(game_entries[j].path))}

\* the duplicate warnings printed so far, as the paths they name
DuplicateWarnings ==
    [k \in 1..Len(stdout) |-> stdout[k].path]

\* the scanned entries that are not the first of their basename, in scan order
RECURSIVE LaterOccurrences(_)
LaterOccurrences(n) ==
    IF n = 0 THEN <<>>
    ELSE IF Min(SameBasename(n)) < n
    THEN Append(LaterOccurrences(n - 1), game_entries[n].path)
    ELSE LaterOccurrences(n - 1)

\* C23: after any number of scanned baseline entries the index of
\* get_game_file_structure holds one entry per basename compared without
\* case, that entry is the path of the first occurrence in scan order, and
\* exactly the later occurrences have been answered by a duplicate warning.
C23_FirstOccurrenceWins ==
    pc \in {"scan", "scanned"} =>
        /\ \A a, b \in DOMAIN game_structure : Lower(a) = Lower(b) => a = b
        /\ \A j \in Scanned :
            /\ Basename(game_entries[Min(SameBasename(j))].path) \in DOMAIN game_structure
            /\ game_structure[Basename(game_entries[Min(SameBasename(j))].path)]
                    = game_entries[Min(SameBasename(j))].path
        /\ Cardinality(DOMAIN game_structure)
                = Cardinality({Min(SameBasename(j)) : j \in Scanned})
        /\ DuplicateWarnings = LaterOccurrences(scan_i - 1)

\* the scan has ended on a package that lists a basename three times, in
\* two spellings, and two warnings were printed
C23_Witness ==
    /\ pc = "scanned"
    /\ Len(game_entries) = MaxGameEntries
    /\ Cardinality(DOMAIN game_structure) = 1
    /\ \E j \in Scanned : Basename(game_entries[j].path) \notin DOMAIN game_structure
    /\ Len(stdout) = 2


----------------------------------------------------------------------------
(* Claims about calls of main in one process (SpecRerun) *)

\* C24: whenever main has written the staging area from which the package is
\* made, the files in it are exactly the paths of this call's groups, one
\* per path touched by the mods accepted in this call, also when main has
\* run before in the same process.
C24_PackageOfThisRunOnly ==
    pc \in {"main_staged", "main_archived"} => DOMAIN staging = GroupedPaths


----------------------------------------------------------------------------
(* Claims about the count of conflicts in one file's merge (SpecMerge) *)

\* the conflict prompts printed while merging the file at hand, for any key
PromptsIssued == {j \in 1..Len(stdout) : stdout[j].ev = "CHOICE REQUIRED"}

\* the reports of auto-resolved conflicts printed so far
AutoResolvedReports == {j \in 1..Len(stdout) : stdout[j].ev = "auto-resolved"}

\* C25: when the merge of one file has returned, the prompts issued plus
\* auto_resolved_count equal the number of baseline Keys with two or more
\* distinct differing values, and the auto-resolved count has been reported,
\* once and as the last output, exactly when it is greater than zero.
C25_EveryConflictCounted ==
    pc = "returned" =>
        /\ Cardinality(PromptsIssued) + auto_resolved_count = Cardinality(ConflictKeys)
        /\ auto_resolved_count > 0 =>
                /\ AutoResolvedReports = {Len(stdout)}
                /\ stdout[Len(stdout)].n = auto_resolved_count
        /\ auto_resolved_count = 0 => AutoResolvedReports = {}

\* a merge has returned after one conflict was prompted for and another
\* was auto-resolved and reported
C25_Witness ==
    /\ pc = "returned"
    /\ Cardinality(ConflictKeys) = 2
    /\ Cardinality(PromptsIssued) = 1
    /\ auto_resolved_count = 1
    /\ AutoResolvedReports # {}


----------------------------------------------------------------------------
(* Claims about the decoding of script entries (SpecDecode) *)

\* C28: every entry the loader has passed is in scripts, in order, whether
\* or not its bytes are valid UTF-8, and its content is the decoding with
\* replacement of all of the entry's bytes.
C28_LossyDecodeOfAllBytes ==
    pc \in {"load", "loaded"} =>
        /\ Len(modded_scripts) = scan_i - 1
        /\ \A k \in 1..Len(modded_scripts) :
            /\ modded_scripts[k].rel_path = game_entries[k].path
            /\ modded_scripts[k].content = decode_replace(game_entries[k].content)


----------------------------------------------------------------------------
(* Claims about the order of the mods list (SpecOrder) *)

\* the merge at hand is the one over the reordered list
Reordered == final_file_contents # <<>>

\* C29: when no baseline Key has two or more distinct differing values, the
\* text returned for the mods in any other order is the text returned for
\* the first order, and neither merge prints a prompt.
C29_OrderWithoutMeaning ==
    (pc = "returned" /\ Reordered /\ ConflictKeys = {}) =>
        /\ merged_content = final_file_contents[original.full_path_in_pak]
        /\ PromptsIssued = {}

\* a second merge has returned in which the first mod of the list is not
\* the first mod of the first merge, two mods changed different Keys and a
\* third changed one of them in the same way
C29_Witness ==
    /\ pc = "returned"
    /\ Reordered
    /\ ConflictKeys = {}
    /\ mods[1].source_pak # ModNames[1]
    /\ \E k1, k2 \in DOMAIN original_map :
        /\ k1 # k2
        /\ Cardinality(Differing(k1)) = 2
        /\ Cardinality(Differing(k2)) = 1
    /\ merged_content # original.content


----------------------------------------------------------------------------
(* Claims about UiSync and the worker threads (SpecUi, SpecUiLive) *)

\* the workers that have come back from their latest UiSync.call
BackFromCall == {w \in DOMAIN workers : workers[w].calls > 0 /\ workers[w].pc # "waiting"}

\* C26: a worker that has come back from UiSync.call holds the outcome of
\* the function run for its own request (the answer, or None when it
\* raised), whatever other workers have requested meanwhile.
C26_CallerGetsOwnResult ==
    \A w \in BackFromCall : workers[w].ret = workers[w].own

\* C27: at any time at most one worker thread is inside run_merge.
C27_OneRunAtATime ==
    Cardinality(InRunMerge) <= 1

\* C30: under SpecUiLive, a worker waiting in UiSync.call comes back from
\* it, also when the called function raises.
C30_CallReturns ==
    \A w \in 1..MaxWorkers :
        (w \in DOMAIN workers /\ workers[w].pc = "waiting")
            ~> (w \in DOMAIN workers /\ workers[w].pc # "waiting")

\* a worker has come back with None from a call whose function raised
C30_Witness ==
    \E w \in BackFromCall :
        /\ workers[w].own = None
        /\ workers[w].ret = None
        /\ \E j \in 1..Len(stdout) : stdout[j].ev = "UiSync error"

====
